---------------------------- MODULE Spec2Model ----------------------------
(***************************************************************************)
(* cargo-test-annotations: the parser that turns the record stream of      *)
(* `cargo test --message-format json` (typed cargo messages interleaved    *)
(* with raw text lines) into TestRun values (src/src/lib.rs), and the      *)
(* annotation loop of the binary that corrects documentation-test          *)
(* locations (src/src/main.rs).                                            *)
(*                                                                         *)
(* Text is modelled as TLA+ strings, read character by character; the      *)
(* regular expressions of lib.rs:620-625 and main.rs:201 are searched the  *)
(* way the regex crate searches them (leftmost start, lazy or greedy       *)
(* repetition as written).  u64/usize values are four 16-bit limbs, so     *)
(* that the arithmetic keeps its 64-bit width.                             *)
(***************************************************************************)
EXTENDS Integers, Sequences, FiniteSets, TLC

(***************************************************************************)
(* Characters and strings                                                  *)
(***************************************************************************)
Ch(s, i) == SubSeq(s, i, i)

Digits == {"0", "1", "2", "3", "4", "5", "6", "7", "8", "9"}

DigitVal(c) ==
    CASE c = "0" -> 0 [] c = "1" -> 1 [] c = "2" -> 2 [] c = "3" -> 3
      [] c = "4" -> 4 [] c = "5" -> 5 [] c = "6" -> 6 [] c = "7" -> 7
      [] c = "8" -> 8 [] c = "9" -> 9

WhiteSpace == {" ", "\t", "\n", "\r", "\f"}

\* s[i..] starts with the literal lit
StartsAt(s, i, lit) ==
    /\ i >= 1
    /\ i + Len(lit) - 1 <= Len(s)
    /\ SubSeq(s, i, i + Len(lit) - 1) = lit

\* the least element of a non-empty set of integers
MinOf(S) == CHOOSE x \in S : \A y \in S : x <= y
MaxOf(S) == CHOOSE x \in S : \A y \in S : x >= y

\* the index of the first character at or after i that is not in cs, Len(s) + 1
\* when there is none
FirstNotIn(s, cs, i) ==
    LET js == {j \in i..Len(s) : Ch(s, j) \notin cs}
    IN  IF js = {} THEN Len(s) + 1 ELSE MinOf(js)

\* the index of the last character that is not in cs, 0 when there is none
LastNotIn(s, cs) ==
    LET js == {j \in 1..Len(s) : Ch(s, j) \notin cs}
    IN  IF js = {} THEN 0 ELSE MaxOf(js)

\* str::trim
Trim(s) == SubSeq(s, FirstNotIn(s, WhiteSpace, 1), LastNotIn(s, WhiteSpace))

\* a faulty variant of RFind: the index of the first c in s
FindFirst(s, c) ==
    LET js == {j \in 1..Len(s) : Ch(s, j) = c}
    IN  IF js = {} THEN 0 ELSE MinOf(js)

\* str::rfind(c): the index of the last c in s, 0 when there is none
RFind(s, c) ==
    LET js == {j \in 1..Len(s) : Ch(s, j) = c}
    IN  IF js = {} THEN 0 ELSE MaxOf(js)

\* the index of the first c in s at or after i, Len(s) + 1 when there is none
FindFrom(s, c, i) ==
    LET js == {j \in i..Len(s) : Ch(s, j) = c}
    IN  IF js = {} THEN Len(s) + 1 ELSE MinOf(js)

\* the index after the run of digits that starts at i
DigitsEnd(s, i) == IF i > Len(s) THEN i ELSE FirstNotIn(s, Digits, i)

(***************************************************************************)
(* u64 / usize: four limbs of 16 bits, least significant first             *)
(***************************************************************************)
Limb == 2^16

U64FromNat(n) == <<n % Limb, (n \div Limb) % Limb, 0, 0>>

U64Zero == U64FromNat(0)

\* v * 10 + d; carry is what does not fit into 64 bits
U64MulAdd10(v, d) ==
    LET t1 == v[1] * 10 + d
        t2 == v[2] * 10 + (t1 \div Limb)
        t3 == v[3] * 10 + (t2 \div Limb)
        t4 == v[4] * 10 + (t3 \div Limb)
    IN  [val |-> <<t1 % Limb, t2 % Limb, t3 % Limb, t4 % Limb>>,
         carry |-> t4 \div Limb]

\* a + b modulo 2^64, and whether the sum overflowed
U64Add(a, b) ==
    LET t1 == a[1] + b[1]
        t2 == a[2] + b[2] + (t1 \div Limb)
        t3 == a[3] + b[3] + (t2 \div Limb)
        t4 == a[4] + b[4] + (t3 \div Limb)
    IN  [val |-> <<t1 % Limb, t2 % Limb, t3 % Limb, t4 % Limb>>,
         overflow |-> t4 \div Limb > 0]

\* a - b modulo 2^64, and whether the difference underflowed
U64Sub(a, b) ==
    LET t1 == a[1] - b[1]
        b1 == IF t1 < 0 THEN 1 ELSE 0
        t2 == a[2] - b[2] - b1
        b2 == IF t2 < 0 THEN 1 ELSE 0
        t3 == a[3] - b[3] - b2
        b3 == IF t3 < 0 THEN 1 ELSE 0
        t4 == a[4] - b[4] - b3
    IN  [val |-> <<t1 % Limb, t2 % Limb, t3 % Limb, t4 % Limb>>,
         overflow |-> t4 < 0]

\* `x as u32`: the low 32 bits
AsU32(v) == <<v[1], v[2]>>

RECURSIVE U64ParseDigits(_, _, _)
U64ParseDigits(s, i, acc) ==
    IF i > Len(s) THEN [ok |-> TRUE, val |-> acc]
    ELSE IF Ch(s, i) \notin Digits THEN [ok |-> FALSE, val |-> U64Zero]
    ELSE LET r == U64MulAdd10(acc, DigitVal(Ch(s, i)))
         IN  IF r.carry > 0 THEN [ok |-> FALSE, val |-> U64Zero]
             ELSE U64ParseDigits(s, i + 1, r.val)

\* <u64 as FromStr>::from_str: an optional '+', then at least one digit,
\* nothing else; a value above 2^64 - 1 is an error
U64Parse(s) ==
    LET start == IF Len(s) > 1 /\ Ch(s, 1) = "+" THEN 2 ELSE 1
    IN  IF Len(s) = 0 THEN [ok |-> FALSE, val |-> U64Zero]
        ELSE U64ParseDigits(s, start, U64Zero)

(***************************************************************************)
(* The regular expressions (lib.rs:620-625, main.rs:201).  Each is an      *)
(* unanchored search: the match with the leftmost start wins.  A capture   *)
(* result is [matched |-> BOOLEAN, ...captured strings...].                *)
(***************************************************************************)
NoNewline(s) == \A i \in 1..Len(s) : Ch(s, i) # "\n"

\* RUNNING_REGEX at start i: "running ", \d+ (greedy), " test"; "s?" may match nothing
RunningAt(s, i) ==
    LET d == i + 8
        e == DigitsEnd(s, d)
    IN  StartsAt(s, i, "running ") /\ e > d /\ StartsAt(s, e, " test")

\* r"running (?P<count>\d+) tests?"
RUNNING_REGEX(s) ==
    LET starts == {i \in 1..Len(s) : RunningAt(s, i)}
        i == MinOf(starts)
    IN  IF starts = {} THEN [matched |-> FALSE, count |-> ""]
        ELSE [matched |-> TRUE, count |-> SubSeq(s, i + 8, DigitsEnd(s, i + 8) - 1)]

\* the rest of TEST_REGEX after the name: " ", any three characters, " ", ok|FAILED
TestTailAt(s, p) ==
    /\ StartsAt(s, p, " ")
    /\ p + 4 <= Len(s)
    /\ NoNewline(SubSeq(s, p + 1, p + 3))
    /\ StartsAt(s, p + 4, " ")
    /\ (StartsAt(s, p + 5, "ok") \/ StartsAt(s, p + 5, "FAILED"))

\* the lengths k >= 1 the name (.+?) starting at n can have
TestNameLens(s, n) ==
    {k \in 1..(Len(s) - n + 1) : NoNewline(SubSeq(s, n, n + k - 1)) /\ TestTailAt(s, n + k)}

\* a faulty variant of TEST_REGEX: only "FAILED" is a result
TestRegexFailedOnly(s) ==
    LET starts == {i \in 1..Len(s) : StartsAt(s, i, "test ") /\ TestNameLens(s, i + 5) # {}}
        i == MinOf(starts)
        k == MinOf(TestNameLens(s, i + 5))
    IN  IF starts = {} \/ StartsAt(s, i + 10 + k, "ok")
        THEN [matched |-> FALSE, name |-> "", result |-> ""]
        ELSE [matched |-> TRUE, name |-> SubSeq(s, i + 5, i + 4 + k), result |-> "FAILED"]

\* r"test (?P<name>.+?) ... (?P<result>ok|FAILED)": leftmost start, shortest name
TEST_REGEX(s) ==
    LET starts == {i \in 1..Len(s) : StartsAt(s, i, "test ") /\ TestNameLens(s, i + 5) # {}}
        i == MinOf(starts)
        k == MinOf(TestNameLens(s, i + 5))
    IN  IF starts = {} THEN [matched |-> FALSE, name |-> "", result |-> ""]
        ELSE [matched |-> TRUE,
              name    |-> SubSeq(s, i + 5, i + 4 + k),
              result  |-> IF StartsAt(s, i + 10 + k, "ok") THEN "ok" ELSE "FAILED"]

HeaderNameLens(s, n) ==
    {k \in 1..(Len(s) - n + 1) :
        NoNewline(SubSeq(s, n, n + k - 1)) /\ StartsAt(s, n + k, " stdout ----")}

\* r"---- (?P<name>.+?) stdout ----": leftmost start, shortest name
FAILURE_HEADER_REGEX(s) ==
    LET starts == {i \in 1..Len(s) : StartsAt(s, i, "---- ") /\ HeaderNameLens(s, i + 5) # {}}
        i == MinOf(starts)
        k == MinOf(HeaderNameLens(s, i + 5))
    IN  IF starts = {} THEN [matched |-> FALSE, name |-> ""]
        ELSE [matched |-> TRUE, name |-> SubSeq(s, i + 5, i + 4 + k)]

\* one "(\d+)<lit>" step at position d: the position after lit, 0 when it does not match
NumThen(s, d, lit) ==
    LET e == DigitsEnd(s, d)
    IN  IF d >= 1 /\ e > d /\ StartsAt(s, e, lit) THEN e + Len(lit) ELSE 0

\* the literals that follow the five counts of RESULT_REGEX
ResultLiterals ==
    <<" passed; ", " failed; ", " ignored; ", " measured; ", " filtered out; finished in ">>

\* the positions <<p1, ..., p6>> where the five counts and the time start, given
\* those found so far; <<>> when a count or its literal does not match
RECURSIVE ResultPositions(_, _)
ResultPositions(s, ps) ==
    IF Len(ps) > Len(ResultLiterals) THEN ps
    ELSE IF NumThen(s, ps[Len(ps)], ResultLiterals[Len(ps)]) = 0 THEN <<>>
    ELSE ResultPositions(s, Append(ps, NumThen(s, ps[Len(ps)], ResultLiterals[Len(ps)])))

NoResultMatch ==
    [matched |-> FALSE, result |-> "", passed |-> "", failed |-> "",
     ignored |-> "", measured |-> "", filtered |-> "", time |-> ""]

\* the captures, given the result token r and the positions ps; (.+) is greedy,
\* to the end of the line, and needs one character
ResultCaptures(s, r, ps) ==
    IF ps = <<>> \/ FindFrom(s, "\n", ps[6]) - 1 < ps[6] THEN NoResultMatch
    ELSE [matched  |-> TRUE,
          result   |-> r,
          passed   |-> SubSeq(s, ps[1], DigitsEnd(s, ps[1]) - 1),
          failed   |-> SubSeq(s, ps[2], DigitsEnd(s, ps[2]) - 1),
          ignored  |-> SubSeq(s, ps[3], DigitsEnd(s, ps[3]) - 1),
          measured |-> SubSeq(s, ps[4], DigitsEnd(s, ps[4]) - 1),
          filtered |-> SubSeq(s, ps[5], DigitsEnd(s, ps[5]) - 1),
          time     |-> SubSeq(s, ps[6], FindFrom(s, "\n", ps[6]) - 1)]

\* after "test result: " and the token r at start i: "." is any character but a
\* newline, then a space, then the counts
ResultAfterToken(s, r, a) ==
    IF a <= Len(s) /\ Ch(s, a) # "\n" /\ StartsAt(s, a + 1, " ")
    THEN ResultCaptures(s, r, ResultPositions(s, <<a + 2>>))
    ELSE NoResultMatch

\* RESULT_REGEX at start i
ResultAt(s, i) ==
    IF ~StartsAt(s, i, "test result: ") THEN NoResultMatch
    ELSE IF StartsAt(s, i + 13, "ok") THEN ResultAfterToken(s, "ok", i + 15)
    ELSE IF StartsAt(s, i + 13, "FAILED") THEN ResultAfterToken(s, "FAILED", i + 19)
    ELSE NoResultMatch

\* r"test result: (?P<result>ok|FAILED). (?P<passed>\d+) passed; (?P<failed>\d+) failed;
\*   (?P<ignored>\d+) ignored; (?P<measured>\d+) measured; (?P<filtered>\d+) filtered out;
\*   finished in (?P<time>.+)"
RESULT_REGEX(s) ==
    LET starts == {i \in 1..Len(s) : StartsAt(s, i, "test result: ") /\ ResultAt(s, i).matched}
    IN  IF starts = {} THEN ResultAt(s, Len(s) + 1) ELSE ResultAt(s, MinOf(starts))

\* the lengths k >= 1 the file (.+?) starting at n can have: followed by
\* " - (line ", \d+ and ")"
DoctestFileLens(s, n) ==
    {k \in 1..(Len(s) - n + 1) :
        /\ NoNewline(SubSeq(s, n, n + k - 1))
        /\ StartsAt(s, n + k, " - (line ")
        /\ NumThen(s, n + k + 9, ")") > 0}

\* r"(?P<file>.+?) - \(line (?P<line>\d+)\)": leftmost start, shortest file
DOCTEST_NAME_FILE_REGEX(s) ==
    LET starts == {i \in 1..Len(s) : DoctestFileLens(s, i) # {}}
        i == MinOf(starts)
        k == MinOf(DoctestFileLens(s, i))
    IN  IF starts = {} THEN [matched |-> FALSE, file |-> "", line |-> ""]
        ELSE [matched |-> TRUE,
              file    |-> SubSeq(s, i, i + k - 1),
              line    |-> SubSeq(s, i + k + 9, DigitsEnd(s, i + k + 9) - 1)]

(***************************************************************************)
(* Values                                                                  *)
(***************************************************************************)
\* Option<T>
None == <<>>
Some(x) == <<x>>

\* <TestFailureLocation as FromStr>::from_str: split(':'), the first part is the
\* file, the second and third parse as u64; further parts are ignored
TestFailureLocationFromStr(s) ==
    LET c1   == FindFrom(s, ":", 1)
        c2   == FindFrom(s, ":", c1 + 1)
        c3   == FindFrom(s, ":", c2 + 1)
        line == IF c1 > Len(s) THEN [ok |-> FALSE, val |-> U64Zero]
                ELSE U64Parse(SubSeq(s, c1 + 1, c2 - 1))
        col  == IF c2 > Len(s) THEN [ok |-> FALSE, val |-> U64Zero]
                ELSE U64Parse(SubSeq(s, c2 + 1, c3 - 1))
    IN  IF line.ok /\ col.ok
        THEN [ok |-> TRUE,
              val |-> [file |-> SubSeq(s, 1, c1 - 1), line |-> line.val, column |-> col.val]]
        ELSE [ok |-> FALSE,
              val |-> [file |-> "", line |-> U64Zero, column |-> U64Zero]]

\* a faulty variant of TestResultKindFromStr: "FAILED" is read as Ok
TestResultKindFromStrAllOk(s) ==
    IF s = "ok" \/ s = "FAILED" THEN [ok |-> TRUE, val |-> "Ok"]
    ELSE [ok |-> FALSE, val |-> ""]

\* <TestResultKind as FromStr>::from_str
TestResultKindFromStr(s) ==
    IF s = "ok" THEN [ok |-> TRUE, val |-> "Ok"]
    ELSE IF s = "FAILED" THEN [ok |-> TRUE, val |-> "Failed"]
    ELSE [ok |-> FALSE, val |-> ""]

\* TestResultParseResult::new
NewTestResultParseResult(name, kind) ==
    [name |-> name, kind |-> kind, failure_info |-> None]

\* TestFailureInfo::new
NewTestFailureInfo(panic_text, location, stacktrace) ==
    [panic_text |-> panic_text, location |-> location, stacktrace |-> stacktrace]

\* a faulty variant of NewTestRunParser: the features are dropped
NewTestRunParserNoFeatures(package, features) ==
    [package      |-> package,
     features     |-> <<>>,
     state        |-> "Initial",
     phase        |-> "Tests",
     test_count   |-> U64Zero,
     test_results |-> <<>>,
     test_run     |-> None,
     doc_test_run |-> None]

\* TestRunParser::new
NewTestRunParser(package, features) ==
    [package      |-> package,
     features     |-> features,
     state        |-> "Initial",
     phase        |-> "Tests",
     test_count   |-> U64Zero,
     test_results |-> <<>>,
     test_run     |-> None,
     doc_test_run |-> None]

\* a faulty variant of TestResultFrom: the failure info goes along whatever the kind
TestResultFromKeepsInfo(t) ==
    [name   |-> t.name,
     result |-> [tag     |-> IF t.kind = "Ok" THEN "Ok" ELSE "Failed",
                 failure |-> t.failure_info]]

\* impl From<TestResultParseResult> for TestResult
TestResultFrom(t) ==
    [name   |-> t.name,
     result |-> IF t.kind = "Ok" THEN [tag |-> "Ok", failure |-> None]
                ELSE [tag |-> "Failed", failure |-> t.failure_info]]

\* a faulty variant of TestResultFromPanics: unwrap_or_default in place of unwrap
TestResultFromNeverPanics(t) == FALSE

\* failure_info.unwrap() in that conversion panics on a Failed result whose
\* failure block was never attached
TestResultFromPanics(t) == t.kind = "Failed" /\ t.failure_info = None

\* impl From<TestDataParseResult> for TestData
TestDataFrom(r) ==
    [test_count   |-> r.test_count,
     test_results |-> [i \in 1..Len(r.test_results) |-> TestResultFrom(r.test_results[i])],
     test_summary |-> r.test_summary]

TestDataFromPanics(r) ==
    \E i \in 1..Len(r.test_results) : TestResultFromPanics(r.test_results[i])

\* impl From<TestRunParser> for TestRun
TestRunFrom(p) ==
    [package      |-> p.package,
     features     |-> p.features,
     test_run     |-> TestDataFrom(p.test_run[1]),
     doc_test_run |-> TestDataFrom(p.doc_test_run[1])]

TestRunFromPanics(p) ==
    \/ p.test_run = None
    \/ p.doc_test_run = None
    \/ TestDataFromPanics(p.test_run[1])
    \/ TestDataFromPanics(p.doc_test_run[1])

\* a faulty variant of FindByName: the last result of that name, 0 if none
FindLastByName(results, name, i) ==
    LET js == {j \in i..Len(results) : results[j].name = name}
    IN  IF js = {} THEN 0 ELSE MaxOf(js)

\* the first index i with test_results[i].name = name (iter_mut().find), 0 if none
RECURSIVE FindByName(_, _, _)
FindByName(results, name, i) ==
    IF i > Len(results) THEN 0
    ELSE IF results[i].name = name THEN i
    ELSE FindByName(results, name, i + 1)

(***************************************************************************)
(* Input: the record stream cargo_metadata::Message::parse_stream yields   *)
(* and the workspace packages of the metadata.                             *)
(***************************************************************************)
TextLine(t) == [type |-> "TextLine", text |-> t]

Artifact(package_id, features, executable) ==
    [type |-> "CompilerArtifact", package_id |-> package_id,
     features |-> features, executable |-> executable]

BuildFinished == [type |-> "BuildFinished"]

IsText(r) == r.type = "TextLine"

\* a faulty variant of IsExecutableArtifact: any artifact counts
IsAnyArtifact(r) == r.type = "CompilerArtifact"

\* Artifact { executable: Some(_), .. }
IsExecutableArtifact(r) == r.type = "CompilerArtifact" /\ r.executable

\* metadata.workspace_packages(), by package id
WorkspacePackages == {"app 0.1.0", "util 0.1.0"}

Lines(ss) == [i \in 1..Len(ss) |-> TextLine(ss[i])]

\* how many stack frames a failure block of a scenario lists, at most
MaxFrames == 2
\* how many extra blank lines precede the count declaration, at most
MaxNoise == 1

Frames(n) == [i \in 1..n |-> "   " \o ToString(i - 1) \o ": frame"]
Noise(n) == [i \in 1..n |-> ""]

ArtifactApp == Artifact("app 0.1.0", <<"default", "std">>, TRUE)
ArtifactUtil == Artifact("util 0.1.0", <<>>, TRUE)

Summary(result, passed, failed) ==
    "test result: " \o result \o ". " \o passed \o " passed; " \o failed
        \o " failed; 0 ignored; 0 measured; 0 filtered out; finished in 0.01s"

\* one failure block as libtest prints it
Block(name, panic, frames) ==
    <<"---- " \o name \o " stdout ----">> \o panic \o <<"stack backtrace:">>
        \o Frames(frames) \o <<"">>

PanicB == "thread 'b' panicked at 'assertion failed: a == b', src/lib.rs:10:5"

\* a phase with no tests
EmptyPhase == <<"running 0 tests", "", Summary("ok", "0", "0"), "">>

\* tests a (ok) and b (FAILED) with one failure block; no documentation tests
FailingRun(frames, noise) ==
    <<ArtifactApp>> \o Lines(
        <<"">> \o Noise(noise)
        \o <<"running 2 tests", "test a ... ok", "test b ... FAILED", "", "failures:", "">>
        \o Block("b", <<PanicB>>, frames)
        \o <<"", "failures:", "    b", "", Summary("FAILED", "1", "1"), "">>
        \o EmptyPhase)

\* the names of the passing test of SinglePass
TestNames == {"a", "tests::it_works", "ok"}

\* one passing test `name` and no documentation tests
SinglePass(name, noise) ==
    <<ArtifactApp>> \o Lines(
        <<"">> \o Noise(noise)
        \o <<"running 1 test", "test " \o name \o " ... ok", "", Summary("ok", "1", "0"), "">>
        \o EmptyPhase)

\* one passing test, then a second artifact with no tests at all
PassingRuns(noise) ==
    <<ArtifactApp>> \o Lines(
        <<"">> \o Noise(noise)
        \o <<"running 1 test", "test a ... ok", "", Summary("ok", "1", "0"), "">>
        \o EmptyPhase)
    \o <<BuildFinished, ArtifactUtil>> \o Lines(<<"">> \o EmptyPhase \o EmptyPhase)

\* two failing tests; the first block's panic message spans two lines and holds commas
TwoFailures(frames) ==
    <<ArtifactApp>> \o Lines(
        <<"", "running 2 tests", "test b ... FAILED", "test c ... FAILED", "", "failures:", "">>
        \o Block("b", <<"thread 'b' panicked at 'left: 1, 2,", " right: 3', src/b.rs:7:9">>, frames)
        \o Block("c", <<"assertion failed: a == b, src/lib.rs:10:5">>, frames)
        \o <<"", "failures:", "    b", "    c", "", Summary("FAILED", "0", "2"), "">>
        \o EmptyPhase)

\* a documentation test that passes and one, `name`, that fails at `location`,
\* after an empty plain phase
DocFailure(name, location, frames) ==
    <<ArtifactApp>> \o Lines(
        <<"">> \o EmptyPhase
        \o <<"running 2 tests", "test src/lib.rs - (line 7) ... ok",
              "test " \o name \o " ... FAILED", "", "failures:", "">>
        \o Block(name, <<"Test executable failed (exit status: 101).", "", "stderr:",
                         "thread 'main' panicked at 'boom', " \o location>>, frames)
        \o <<"", "failures:", "    " \o name, "", Summary("FAILED", "1", "1"), "">>)

\* how many failure blocks a failures section of ManyFailures holds, at most
MaxBlocks == 3

\* the name of the i-th failing test of ManyFailures
BlockName(i) == "t" \o ToString(i)

\* the i-th failure block of ManyFailures, followed by `gap` unrelated lines
BlockLines(i, gap) ==
    Block(BlockName(i),
          <<"thread '" \o BlockName(i) \o "' panicked at 'boom', src/"
                \o BlockName(i) \o ".rs:" \o ToString(i) \o ":1">>, 1)
        \o [j \in 1..gap |-> "unrelated output"]

\* k failing tests with one failure block each, in the order of the test lines
ManyFailures(k, gap) ==
    <<ArtifactApp>> \o Lines(
        <<"", "running " \o ToString(k) \o (IF k = 1 THEN " test" ELSE " tests")>>
        \o [i \in 1..k |-> "test " \o BlockName(i) \o " ... FAILED"]
        \o <<"", "failures:", "">>
        \o [n \in 1..(k * (5 + gap)) |->
               BlockLines(((n - 1) \div (5 + gap)) + 1, gap)[((n - 1) % (5 + gap)) + 1]]
        \o <<"", "failures:">>
        \o [i \in 1..k |-> "    " \o BlockName(i)]
        \o <<"", Summary("FAILED", "0", ToString(k)), "">>
        \o EmptyPhase)

\* two failing tests that share the name b, each with a failure block
DuplicateNames ==
    <<ArtifactApp>> \o Lines(
        <<"", "running 2 tests", "test b ... FAILED", "test b ... FAILED", "", "failures:", "">>
        \o Block("b", <<"thread 'b' panicked at 'first', src/b.rs:1:1">>, 1)
        \o Block("b", <<"thread 'b' panicked at 'second', src/b.rs:2:2">>, 1)
        \o <<"", "failures:", "    b", "    b", "", Summary("FAILED", "0", "2"), "">>
        \o EmptyPhase)

\* the failure block of the failing test b is headed by the passing test's name a
BlockForPassing ==
    [FailingRun(1, 0) EXCEPT ![9] = TextLine("---- a stdout ----")]

\* a plain test b that fails at `location`, and no documentation tests
PlainFailure(location, frames) ==
    <<ArtifactUtil>> \o Lines(
        <<"", "running 1 test", "test b ... FAILED", "", "failures:", "">>
        \o Block("b", <<"thread 'b' panicked at 'boom', " \o location>>, frames)
        \o <<"", "failures:", "    b", "", Summary("FAILED", "0", "1"), "">>
        \o EmptyPhase)

\* a run that passes, then a run whose failure block has a location that does not parse
MalformedLocationLine == "thread 'b' panicked at 'boom', src/lib.rs:ten:5"
PassingThenMalformed ==
    PassingRuns(0) \o <<BuildFinished>>
        \o [FailingRun(1, 0) EXCEPT ![10] = TextLine(MalformedLocationLine)]

U64MaxStr == "18446744073709551615"

\* the line numbers N of documentation-test names, and the reported lines and columns
DocNameLines == {"0", "1", "42", U64MaxStr}
ReportedLines == {"1", "3", "44", "4294967301", U64MaxStr}
ReportedColumns == {"1", "18446744073709551611", "18446744073709551612"}

DocNames ==
    {"src/lib.rs - (line " \o n \o ")" : n \in DocNameLines}
        \cup {"src/lib.rs - add (line 5)"}

Locations == {"src/lib.rs:" \o l \o ":" \o c : l \in ReportedLines, c \in ReportedColumns}

\* the records an edit puts into a scenario
EditRecords ==
    {BuildFinished, ArtifactUtil,
     Artifact("serde 1.0.0", <<>>, TRUE), Artifact("app 0.1.0", <<>>, FALSE)}
    \cup {TextLine(t) : t \in
            {"", "running 0 tests", "running 1 test", "running 99999999999999999999 tests",
             "test a ... ok", "test b ... ok", "test b ... FAILED", "test c ... FAILED",
             "failures:", "---- b stdout ----", "---- c stdout ----", "---- z stdout ----",
             PanicB, "thread 'b' panicked", "thread 'b' panicked at 'boom',src/lib.rs:1:1",
             MalformedLocationLine,
             "stack backtrace:", "   9: frame",
             Summary("ok", "1", "0"), Summary("FAILED", "0", "2"),
             Summary("ok", "99999999999999999999", "0")}}

Replace(s, i, r) == [s EXCEPT ![i] = r]
Delete(s, i) == SubSeq(s, 1, i - 1) \o SubSeq(s, i + 1, Len(s))
Insert(s, i, r) == SubSeq(s, 1, i - 1) \o <<r>> \o SubSeq(s, i, Len(s))

\* the streams that differ from s by one replaced, removed or inserted record,
\* and the proper prefixes of s
OneEdit(s) ==
    {Replace(s, i, r) : i \in 1..Len(s), r \in EditRecords}
        \cup {Delete(s, i) : i \in 1..Len(s)}
        \cup {Insert(s, i, BuildFinished) : i \in 1..Len(s)}
        \cup {SubSeq(s, 1, i) : i \in 0..(Len(s) - 1)}

\* the end-to-end segment without the "stack backtrace:" line of its failure block
NoBacktrace == Delete(FailingRun(1, 0), 11)

\* the same, followed by the events of a further build step
NoBacktraceThenEvent == NoBacktrace \o <<BuildFinished, ArtifactUtil>>

Scenarios ==
    {FailingRun(1, 0), PassingRuns(0), TwoFailures(1),
     DocFailure("src/lib.rs - (line 42)", "src/lib.rs:44:1", 1)}

Streams ==
    Scenarios
        \cup UNION {OneEdit(s) : s \in Scenarios}
        \cup {FailingRun(f, n) : f \in 1..MaxFrames, n \in 0..MaxNoise}
        \cup {PassingRuns(n) : n \in 0..MaxNoise}
        \cup {SinglePass(t, n) : t \in TestNames, n \in 0..MaxNoise}
        \cup {TwoFailures(f) : f \in 1..MaxFrames}
        \cup {ManyFailures(k, g) : k \in 1..MaxBlocks, g \in 0..MaxNoise}
        \cup {DocFailure(n, l, f) : n \in DocNames, l \in Locations, f \in 1..MaxFrames}
        \cup {PlainFailure(l, f) : l \in Locations, f \in 1..MaxFrames}
        \cup {PassingThenMalformed}
        \cup {DuplicateNames, BlockForPassing}
        \cup {NoBacktrace, NoBacktraceThenEvent}
        \cup {DocFailure("src/lib.rs - (line 99999999999999999999)", "src/lib.rs:44:1", 1)}

(***************************************************************************)
(* State                                                                   *)
(***************************************************************************)
VARIABLES
    stream,            \* the records of the input, in order
    pos,               \* how many records message_iter.next() has yielded
    peeked,            \* whether the Peekable holds the record after pos
    current_artifact,  \* parse: Option<Artifact>
    test_runs,         \* parse: Vec<TestRun>
    parser,            \* the live TestRunParser (self), None outside TestRunParser::parse
    fb,                \* the locals of the FailuresOutput arm, None outside it
    pc,                \* where control is
    outcome,           \* what parse returned: running, Ok(value), Err(error) or a panic
    ri,                \* main: index of the test run being reported
    qi,                \* main: index of the result being reported
    overflow_checks,   \* whether the build panics on integer overflow; "any" until it matters
    real,              \* main: the (file, real_line, real_column) last computed
    annotations,       \* main: Vec<CheckRunOutputAnnotation>
    conclusion,        \* main: the conclusion of the check run that is created
    main_outcome,      \* what main returned
    first              \* what an earlier call of parse on the same stream returned, None
                       \* when there was none

vars == <<stream, pos, peeked, current_artifact, test_runs, parser, fb, pc, outcome,
          ri, qi, overflow_checks, real, annotations, conclusion, main_outcome, first>>

\* what a call of parse leaves alone
mainVars == <<ri, qi, overflow_checks, real, annotations, conclusion, main_outcome, first>>

self == parser[1]
blk == fb[1]

HasNext == pos < Len(stream)
Cur == stream[pos + 1]
\* what `while let Some(Ok(Message::TextLine(t))) = message_iter.peek()` tests
PeekIsText == HasNext /\ IsText(Cur)
\* message_iter.next() yields a text line
NextIsText == HasNext /\ IsText(Cur)

Running == [kind |-> "running", value |-> <<>>, error |-> "", state |-> ""]
Ok(v) == [kind |-> "Ok", value |-> v, error |-> "", state |-> ""]
\* a faulty variant of Err: the runs parsed so far go along with the error
ErrWithRuns(e, st) == [kind |-> "Err", value |-> test_runs, error |-> e, state |-> st]
\* Err(miette::Report): `?` and miette::bail! return the error and nothing else
Err(e, st) == [kind |-> "Err", value |-> <<>>, error |-> e, state |-> st]
Panicked(msg) == [kind |-> "panic", value |-> <<>>, error |-> msg, state |-> ""]

Init ==
    /\ stream \in Streams
    /\ pos = 0
    /\ peeked = FALSE
    /\ current_artifact = None
    /\ test_runs = <<>>
    /\ parser = None
    /\ fb = None
    /\ pc = "parse"
    /\ outcome = Running
    /\ ri = 1
    /\ qi = 1
    /\ overflow_checks = "any"
    /\ real = None
    /\ annotations = <<>>
    /\ conclusion = "none"
    /\ main_outcome = Running
    /\ first = None

\* message_iter.next() yields a record
Consume ==
    /\ pos' = pos + 1
    /\ peeked' = FALSE

\* message_iter.next() at the end of the stream yields None
NextAtEnd ==
    /\ pos' = pos
    /\ peeked' = FALSE

\* a faulty variant of Peek: the record looked at is taken
PeekAdvances ==
    /\ pos' = pos + 1
    /\ peeked' = TRUE

\* message_iter.peek() looks at the next record and leaves it
Peek ==
    /\ pos' = pos
    /\ peeked' = TRUE

\* parse ends with `o`: an error or a panic unwinds through every frame
Stop(o) ==
    /\ outcome' = o
    /\ pc' = "exit"

(***************************************************************************)
(* parse (lib.rs:27-70): the partitioner                                   *)
(***************************************************************************)
\* the stream is exhausted: Ok(test_runs)
ParseEnd ==
    /\ pc = "parse"
    /\ ~HasNext
    /\ NextAtEnd
    /\ outcome' = Ok(test_runs)
    /\ pc' = "main"
    /\ UNCHANGED <<stream, current_artifact, test_runs, parser, fb, mainVars>>

\* Message::CompilerArtifact with an executable
ParseArtifact ==
    /\ pc = "parse"
    /\ HasNext
    /\ IsExecutableArtifact(Cur)
    /\ Consume
    /\ current_artifact' = Some(Cur)
    /\ UNCHANGED <<stream, test_runs, parser, fb, pc, outcome, mainVars>>

\* any other message that is no text line
ParseIrrelevant ==
    /\ pc = "parse"
    /\ HasNext
    /\ ~IsText(Cur)
    /\ ~IsExecutableArtifact(Cur)
    /\ Consume
    /\ UNCHANGED <<stream, current_artifact, test_runs, parser, fb, pc, outcome, mainVars>>

\* a faulty variant of FindPackage: every package id resolves
FindPackageAny(package_id) == Some(package_id)

\* workspace_packages.iter().find(|w| w.id == artifact.package_id)
FindPackage(package_id) ==
    IF package_id \in WorkspacePackages THEN Some(package_id) ELSE None

\* a faulty variant of ParseTextLine: a text line without a current artifact is
\* passed over like an irrelevant message
ParseTextLineIgnores ==
    /\ pc = "parse"
    /\ HasNext
    /\ IsText(Cur)
    /\ Consume
    /\ IF current_artifact = None
       THEN UNCHANGED <<parser, pc, outcome>>
       ELSE IF FindPackage(current_artifact[1].package_id) = None
       THEN /\ Stop(Err("UnresolvedPackage", ""))
            /\ UNCHANGED parser
       ELSE /\ parser' = Some(NewTestRunParser(FindPackage(current_artifact[1].package_id)[1],
                                               current_artifact[1].features))
            /\ pc' = "run"
            /\ UNCHANGED outcome
    /\ UNCHANGED <<stream, current_artifact, test_runs, fb, mainVars>>

\* a faulty variant of ParseTextLine: the line is left for the TestRunParser
ParseTextLineHandsOver ==
    /\ pc = "parse"
    /\ HasNext
    /\ IsText(Cur)
    /\ Peek
    /\ IF current_artifact = None
       THEN /\ Stop(Panicked("No current artifact. Is the input data malformed?"))
            /\ UNCHANGED parser
       ELSE IF FindPackage(current_artifact[1].package_id) = None
       THEN /\ Stop(Err("UnresolvedPackage", ""))
            /\ UNCHANGED parser
       ELSE /\ parser' = Some(NewTestRunParser(FindPackage(current_artifact[1].package_id)[1],
                                               current_artifact[1].features))
            /\ pc' = "run"
            /\ UNCHANGED outcome
    /\ UNCHANGED <<stream, current_artifact, test_runs, fb, mainVars>>

\* Message::TextLine: resolve the package and start a TestRunParser
ParseTextLine ==
    /\ pc = "parse"
    /\ HasNext
    /\ IsText(Cur)
    /\ Consume
    /\ IF current_artifact = None
       THEN /\ Stop(Panicked("No current artifact. Is the input data malformed?"))
            /\ UNCHANGED parser
       ELSE IF FindPackage(current_artifact[1].package_id) = None
       THEN /\ Stop(Err("UnresolvedPackage", ""))
            /\ UNCHANGED parser
       ELSE /\ parser' = Some(NewTestRunParser(FindPackage(current_artifact[1].package_id)[1],
                                               current_artifact[1].features))
            /\ pc' = "run"
            /\ UNCHANGED outcome
    /\ UNCHANGED <<stream, current_artifact, test_runs, fb, mainVars>>

\* a faulty variant of DiscardText: the text line is left to the partitioner
DiscardTextReoffers ==
    /\ pc = "discard"
    /\ PeekIsText
    /\ Peek
    /\ pc' = "parse"
    /\ UNCHANGED <<stream, current_artifact, test_runs, parser, fb, outcome, mainVars>>

\* the trailing text lines after a run are skipped
DiscardText ==
    /\ pc = "discard"
    /\ PeekIsText
    /\ Consume
    /\ UNCHANGED <<stream, current_artifact, test_runs, parser, fb, pc, outcome, mainVars>>

DiscardEnd ==
    /\ pc = "discard"
    /\ ~PeekIsText
    /\ Peek
    /\ pc' = "parse"
    /\ UNCHANGED <<stream, current_artifact, test_runs, parser, fb, outcome, mainVars>>

(***************************************************************************)
(* TestRunParser::parse (lib.rs:207-447): the outer machine                *)
(***************************************************************************)
InLoop == pc = "run" /\ self.phase # "Done" /\ self.state # "Done"

\* a faulty variant of RunReturn: the current artifact is forgotten with the run
RunReturnClearsArtifact ==
    /\ pc = "run"
    /\ self.phase = "Done"
    /\ IF TestRunFromPanics(self)
       THEN /\ Stop(Panicked("called Option::unwrap() on a None value"))
            /\ UNCHANGED <<test_runs, parser, current_artifact>>
       ELSE /\ test_runs' = Append(test_runs, TestRunFrom(self))
            /\ parser' = None
            /\ current_artifact' = None
            /\ pc' = "discard"
            /\ UNCHANGED outcome
    /\ UNCHANGED <<stream, pos, peeked, fb, mainVars>>

\* phase == Done: Ok(self.into())
RunReturn ==
    /\ pc = "run"
    /\ self.phase = "Done"
    /\ IF TestRunFromPanics(self)
       THEN /\ Stop(Panicked("called Option::unwrap() on a None value"))
            /\ UNCHANGED <<test_runs, parser>>
       ELSE /\ test_runs' = Append(test_runs, TestRunFrom(self))
            /\ parser' = None
            /\ pc' = "discard"
            /\ UNCHANGED outcome
    /\ UNCHANGED <<stream, pos, peeked, current_artifact, fb, mainVars>>

\* a faulty variant of RunPhaseAdvance: the second phase keeps the first one's count
RunPhaseAdvanceKeepsCount ==
    /\ pc = "run"
    /\ self.phase # "Done"
    /\ self.state = "Done"
    /\ parser' = Some(IF self.phase = "Tests"
                      THEN [self EXCEPT !.phase = "DocTests", !.state = "Initial"]
                      ELSE [self EXCEPT !.phase = "Done"])
    /\ UNCHANGED <<stream, pos, peeked, current_artifact, test_runs, fb, pc, outcome, mainVars>>

\* state == Done: the match on self.phase after the inner loop
RunPhaseAdvance ==
    /\ pc = "run"
    /\ self.phase # "Done"
    /\ self.state = "Done"
    /\ parser' = Some(IF self.phase = "Tests"
                      THEN [self EXCEPT !.phase = "DocTests", !.state = "Initial",
                                        !.test_count = U64Zero]
                      ELSE [self EXCEPT !.phase = "Done"])
    /\ UNCHANGED <<stream, pos, peeked, current_artifact, test_runs, fb, pc, outcome, mainVars>>

\* a faulty variant of RunEndOfStream: the end of the stream ends the run's parse
\* with an error value
RunEndOfStreamErr ==
    /\ InLoop
    /\ ~HasNext
    /\ NextAtEnd
    /\ Stop(Err("UnexpectedRecord", self.state))
    /\ UNCHANGED <<stream, current_artifact, test_runs, parser, fb, mainVars>>

\* message_iter.next().expect("we're in the middle of parsing") at the end of the stream
RunEndOfStream ==
    /\ InLoop
    /\ ~HasNext
    /\ NextAtEnd
    /\ Stop(Panicked("we're in the middle of parsing"))
    /\ UNCHANGED <<stream, current_artifact, test_runs, parser, fb, mainVars>>

\* any message that is no text line: miette::bail!
RunUnexpected ==
    /\ InLoop
    /\ HasNext
    /\ ~IsText(Cur)
    /\ Consume
    /\ Stop(Err("UnexpectedRecord", self.state))
    /\ UNCHANGED <<stream, current_artifact, test_runs, parser, fb, mainVars>>

\* a faulty variant of RunInitial: every count declaration leads to Tests
RunInitialAlwaysTests ==
    /\ InLoop
    /\ self.state = "Initial"
    /\ NextIsText
    /\ Consume
    /\ LET c == RUNNING_REGEX(Cur.text)
           test_count == U64Parse(c.count)
       IN  IF ~c.matched
           THEN UNCHANGED <<parser, pc, outcome>>
           ELSE IF ~test_count.ok
           THEN /\ Stop(Err("MalformedCount", self.state))
                /\ UNCHANGED parser
           ELSE /\ parser' = Some([self EXCEPT !.test_count = test_count.val,
                                               !.state = "Tests"])
                /\ UNCHANGED <<pc, outcome>>
    /\ UNCHANGED <<stream, current_artifact, test_runs, fb, mainVars>>

\* TestRunParserState::Initial
RunInitial ==
    /\ InLoop
    /\ self.state = "Initial"
    /\ NextIsText
    /\ Consume
    /\ LET c == RUNNING_REGEX(Cur.text)
           test_count == U64Parse(c.count)
       IN  IF ~c.matched
           THEN UNCHANGED <<parser, pc, outcome>>
           ELSE IF ~test_count.ok
           THEN /\ Stop(Err("MalformedCount", self.state))
                /\ UNCHANGED parser
           ELSE /\ parser' = Some([self EXCEPT
                                     !.test_count = test_count.val,
                                     !.state = IF test_count.val # U64Zero
                                               THEN "Tests" ELSE "Results"])
                /\ UNCHANGED <<pc, outcome>>
    /\ UNCHANGED <<stream, current_artifact, test_runs, fb, mainVars>>

\* a faulty variant of RunTests: the end of the test lines always leads to Results
RunTestsAlwaysResults ==
    /\ InLoop
    /\ self.state = "Tests"
    /\ NextIsText
    /\ Consume
    /\ LET c == TEST_REGEX(Cur.text)
           result == TestResultKindFromStr(c.result)
       IN  IF c.matched
           THEN IF ~result.ok
                THEN /\ Stop(Err("UnknownOutcomeToken", self.state))
                     /\ UNCHANGED parser
                ELSE /\ parser' = Some([self EXCEPT !.test_results =
                                          Append(@, NewTestResultParseResult(c.name, result.val))])
                     /\ UNCHANGED <<pc, outcome>>
           ELSE /\ parser' = Some([self EXCEPT !.state = "Results"])
                /\ UNCHANGED <<pc, outcome>>
    /\ UNCHANGED <<stream, current_artifact, test_runs, fb, mainVars>>

\* TestRunParserState::Tests
RunTests ==
    /\ InLoop
    /\ self.state = "Tests"
    /\ NextIsText
    /\ Consume
    /\ LET c == TEST_REGEX(Cur.text)
           result == TestResultKindFromStr(c.result)
       IN  IF c.matched
           THEN IF ~result.ok
                THEN /\ Stop(Err("UnknownOutcomeToken", self.state))
                     /\ UNCHANGED parser
                ELSE /\ parser' = Some([self EXCEPT !.test_results =
                                          Append(@, NewTestResultParseResult(c.name, result.val))])
                     /\ UNCHANGED <<pc, outcome>>
           ELSE /\ parser' = Some([self EXCEPT !.state =
                                     IF \E i \in 1..Len(self.test_results) :
                                            self.test_results[i].kind = "Failed"
                                     THEN "FailuresOutput" ELSE "Results"])
                /\ UNCHANGED <<pc, outcome>>
    /\ UNCHANGED <<stream, current_artifact, test_runs, fb, mainVars>>

\* the locals of one round of `while more_failures`
NewBlock(text, failure_parsing_state) ==
    [more_failures         |-> TRUE,
     failure_parsing_state |-> failure_parsing_state,
     text_inner            |-> text,
     name                  |-> None,
     panic_text            |-> None,
     location              |-> None,
     stacktrace            |-> None]

\* TestRunParserState::FailuresOutput: enter the failure loop with this line
RunFailuresOutput ==
    /\ InLoop
    /\ self.state = "FailuresOutput"
    /\ NextIsText
    /\ Consume
    /\ fb' = Some(NewBlock(Cur.text, "Initial"))
    /\ pc' = "failure"
    /\ UNCHANGED <<stream, current_artifact, test_runs, parser, outcome, mainVars>>

\* TestRunParserState::FailuresListing: the line read is dropped, the listing is
\* then skipped by lookahead
RunFailuresListing ==
    /\ InLoop
    /\ self.state = "FailuresListing"
    /\ NextIsText
    /\ Consume
    /\ pc' = "listing"
    /\ UNCHANGED <<stream, current_artifact, test_runs, parser, fb, outcome, mainVars>>

\* a faulty variant of ListingSkip: the listing line is looked at and not taken
ListingSkipPeeks ==
    /\ pc = "listing"
    /\ PeekIsText
    /\ Trim(Cur.text) # ""
    /\ Peek
    /\ UNCHANGED <<stream, current_artifact, test_runs, parser, fb, pc, outcome, mainVars>>

ListingSkip ==
    /\ pc = "listing"
    /\ PeekIsText
    /\ Trim(Cur.text) # ""
    /\ Consume
    /\ UNCHANGED <<stream, current_artifact, test_runs, parser, fb, pc, outcome, mainVars>>

ListingBlank ==
    /\ pc = "listing"
    /\ PeekIsText
    /\ Trim(Cur.text) = ""
    /\ Peek
    /\ parser' = Some([self EXCEPT !.state = "Results"])
    /\ pc' = "run"
    /\ UNCHANGED <<stream, current_artifact, test_runs, fb, outcome, mainVars>>

ListingExit ==
    /\ pc = "listing"
    /\ ~PeekIsText
    /\ Peek
    /\ pc' = "run"
    /\ UNCHANGED <<stream, current_artifact, test_runs, parser, fb, outcome, mainVars>>

\* TestSummary::new and TestDataParseResult::new from the captures of a summary line
SummaryFields(c) ==
    [result   |-> TestResultKindFromStr(c.result),
     passed   |-> U64Parse(c.passed),
     failed   |-> U64Parse(c.failed),
     ignored  |-> U64Parse(c.ignored),
     measured |-> U64Parse(c.measured),
     filtered |-> U64Parse(c.filtered)]

NewTestSummary(f, time) ==
    [result   |-> f.result.val,
     passed   |-> f.passed.val,
     failed   |-> f.failed.val,
     ignored  |-> f.ignored.val,
     measured |-> f.measured.val,
     filtered |-> f.filtered.val,
     time     |-> time]

\* a faulty variant of NewTestDataParseResult: the count is taken from the results
NewTestDataParseResultCounts(test_count, test_results, test_summary) ==
    [test_count   |-> U64FromNat(Len(test_results)),
     test_results |-> test_results,
     test_summary |-> test_summary]

\* TestDataParseResult::new
NewTestDataParseResult(test_count, test_results, test_summary) ==
    [test_count |-> test_count, test_results |-> test_results, test_summary |-> test_summary]

\* a faulty variant of RunResults: a line that is no summary line is an error
RunResultsStrict ==
    /\ InLoop
    /\ self.state = "Results"
    /\ NextIsText
    /\ Consume
    /\ LET c == RESULT_REGEX(Cur.text)
           f == SummaryFields(c)
           test_run == NewTestDataParseResult(self.test_count, self.test_results,
                                              NewTestSummary(f, c.time))
       IN  IF ~(c.matched /\ f.result.ok /\ f.passed.ok /\ f.failed.ok /\ f.ignored.ok
                   /\ f.measured.ok /\ f.filtered.ok)
           THEN /\ Stop(Err("MalformedResultLine", self.state))
                /\ UNCHANGED parser
           ELSE /\ parser' = Some(IF self.phase = "Tests"
                                  THEN [self EXCEPT !.test_results = <<>>,
                                                    !.test_run = Some(test_run),
                                                    !.state = "Done"]
                                  ELSE [self EXCEPT !.test_results = <<>>,
                                                    !.doc_test_run = Some(test_run),
                                                    !.state = "Done"])
                /\ UNCHANGED <<pc, outcome>>
    /\ UNCHANGED <<stream, current_artifact, test_runs, fb, mainVars>>

\* TestRunParserState::Results
RunResults ==
    /\ InLoop
    /\ self.state = "Results"
    /\ NextIsText
    /\ Consume
    /\ LET c == RESULT_REGEX(Cur.text)
           f == SummaryFields(c)
           test_run == NewTestDataParseResult(self.test_count, self.test_results,
                                              NewTestSummary(f, c.time))
       IN  IF ~c.matched
           THEN UNCHANGED <<parser, pc, outcome>>
           ELSE IF ~(f.result.ok /\ f.passed.ok /\ f.failed.ok /\ f.ignored.ok
                        /\ f.measured.ok /\ f.filtered.ok)
           THEN /\ Stop(Err("MalformedResultLine", self.state))
                /\ UNCHANGED parser
           ELSE /\ parser' = Some(IF self.phase = "Tests"
                                  THEN [self EXCEPT !.test_results = <<>>,
                                                    !.test_run = Some(test_run),
                                                    !.state = "Done"]
                                  ELSE [self EXCEPT !.test_results = <<>>,
                                                    !.doc_test_run = Some(test_run),
                                                    !.state = "Done"])
                /\ UNCHANGED <<pc, outcome>>
    /\ UNCHANGED <<stream, current_artifact, test_runs, fb, mainVars>>

(***************************************************************************)
(* The failure loop of the FailuresOutput arm (lib.rs:257-382)             *)
(***************************************************************************)
InBlock(st) == pc = "failure" /\ blk.failure_parsing_state = st

\* TestRunFailureParserState::Initial
FailureInitial ==
    /\ InBlock("Initial")
    /\ fb' = Some(IF Trim(blk.text_inner) = "failures:"
                  THEN [blk EXCEPT !.failure_parsing_state = "Header"]
                  ELSE blk)
    /\ pc' = "failure_next"
    /\ UNCHANGED <<stream, pos, peeked, current_artifact, test_runs, parser, outcome, mainVars>>

\* TestRunFailureParserState::Header
FailureHeader ==
    /\ InBlock("Header")
    /\ LET c == FAILURE_HEADER_REGEX(blk.text_inner)
       IN  fb' = Some(IF c.matched
                      THEN [blk EXCEPT !.name = Some(c.name),
                                       !.failure_parsing_state = "Panic"]
                      ELSE blk)
    /\ pc' = "failure_next"
    /\ UNCHANGED <<stream, pos, peeked, current_artifact, test_runs, parser, outcome, mainVars>>

\* a faulty variant of PanicAppend: the "failures:" listing ends the panic text too
PanicAppendEndsAtListing ==
    /\ InBlock("Panic")
    /\ PeekIsText
    /\ Trim(Cur.text) # "stack backtrace:"
    /\ IF Trim(Cur.text) = "failures:"
       THEN /\ Peek
            /\ fb' = Some([blk EXCEPT !.failure_parsing_state = "Stacktrace"])
       ELSE /\ Consume
            /\ fb' = Some([blk EXCEPT !.text_inner = @ \o "\n" \o Cur.text])
    /\ UNCHANGED <<stream, current_artifact, test_runs, parser, pc, outcome, mainVars>>

\* TestRunFailureParserState::Panic: a line that is not the sentinel is appended
PanicAppend ==
    /\ InBlock("Panic")
    /\ PeekIsText
    /\ Trim(Cur.text) # "stack backtrace:"
    /\ Consume
    /\ fb' = Some([blk EXCEPT !.text_inner = @ \o "\n" \o Cur.text])
    /\ UNCHANGED <<stream, current_artifact, test_runs, parser, pc, outcome, mainVars>>

\* text_inner.rfind(','), split_at, strip_prefix(", "), trim: [ok, panic_text, location]
SplitPanic(text_inner) ==
    LET rpos == RFind(text_inner, ",")
    IN  IF rpos = 0 \/ ~StartsAt(text_inner, rpos, ", ")
        THEN [ok |-> FALSE, panic_text |-> "", location |-> ""]
        ELSE [ok         |-> TRUE,
              panic_text |-> SubSeq(text_inner, 1, rpos - 1),
              location   |-> Trim(SubSeq(text_inner, rpos + 2, Len(text_inner)))]

\* TestRunFailureParserState::Panic: the sentinel "stack backtrace:" is peeked
PanicSplit ==
    /\ InBlock("Panic")
    /\ PeekIsText
    /\ Trim(Cur.text) = "stack backtrace:"
    /\ Peek
    /\ LET sp == SplitPanic(blk.text_inner)
       IN  IF ~sp.ok
           THEN /\ Stop(Panicked("regular panic format"))
                /\ UNCHANGED fb
           ELSE /\ fb' = Some([blk EXCEPT !.panic_text = Some(sp.panic_text),
                                          !.location = Some(sp.location),
                                          !.failure_parsing_state = "Stacktrace"])
                /\ pc' = "failure_next"
                /\ UNCHANGED outcome
    /\ UNCHANGED <<stream, current_artifact, test_runs, parser, mainVars>>

\* TestRunFailureParserState::Panic: the lookahead finds no text line
PanicExit ==
    /\ InBlock("Panic")
    /\ ~PeekIsText
    /\ Peek
    /\ pc' = "failure_next"
    /\ UNCHANGED <<stream, current_artifact, test_runs, parser, fb, outcome, mainVars>>

\* TestRunFailureParserState::Stacktrace: a non-blank line is appended
StackAppend ==
    /\ InBlock("Stacktrace")
    /\ PeekIsText
    /\ Trim(Cur.text) # ""
    /\ Consume
    /\ fb' = Some([blk EXCEPT !.text_inner = @ \o "\n" \o Cur.text])
    /\ UNCHANGED <<stream, current_artifact, test_runs, parser, pc, outcome, mainVars>>

\* TestRunFailureParserState::Stacktrace: a blank line is peeked
StackEnd ==
    /\ InBlock("Stacktrace")
    /\ PeekIsText
    /\ Trim(Cur.text) = ""
    /\ Peek
    /\ fb' = Some([blk EXCEPT !.stacktrace = Some(blk.text_inner),
                              !.failure_parsing_state = "Done"])
    /\ pc' = "failure_next"
    /\ UNCHANGED <<stream, current_artifact, test_runs, parser, outcome, mainVars>>

StackExit ==
    /\ InBlock("Stacktrace")
    /\ ~PeekIsText
    /\ Peek
    /\ pc' = "failure_next"
    /\ UNCHANGED <<stream, current_artifact, test_runs, parser, fb, outcome, mainVars>>

\* lib.rs:335-350: the next message becomes text_inner
FailureNextText ==
    /\ pc = "failure_next"
    /\ HasNext
    /\ IsText(Cur)
    /\ Consume
    /\ fb' = Some([blk EXCEPT !.text_inner = Cur.text])
    /\ pc' = IF blk.failure_parsing_state = "Done" THEN "attach" ELSE "failure"
    /\ UNCHANGED <<stream, current_artifact, test_runs, parser, outcome, mainVars>>

FailureNextUnexpected ==
    /\ pc = "failure_next"
    /\ HasNext
    /\ ~IsText(Cur)
    /\ Consume
    /\ Stop(Err("UnexpectedRecord", self.state))
    /\ UNCHANGED <<stream, current_artifact, test_runs, parser, fb, mainVars>>

FailureNextEnd ==
    /\ pc = "failure_next"
    /\ ~HasNext
    /\ NextAtEnd
    /\ Stop(Panicked("we're not done"))
    /\ UNCHANGED <<stream, current_artifact, test_runs, parser, fb, mainVars>>

\* what lib.rs:352-362 does with the locals b of a block and the pending results:
\* [kind |-> "ok", results] or an error or a panic
AttachFailure(b, test_results) ==
    LET location == TestFailureLocationFromStr(b.location[1])
        idx == FindByName(test_results, b.name[1], 1)
    IN  IF b.panic_text = None \/ b.location = None
        THEN [kind |-> "panic", results |-> test_results]
        ELSE IF ~location.ok
        THEN [kind |-> "Err", results |-> test_results]
        ELSE IF b.stacktrace = None \/ b.name = None \/ idx = 0
        THEN [kind |-> "panic", results |-> test_results]
        ELSE [kind |-> "ok",
              results |-> [test_results EXCEPT ![idx].failure_info =
                             Some(NewTestFailureInfo(b.panic_text[1], location.val,
                                                     b.stacktrace[1]))]]

\* lib.rs:352-362: build the TestFailureInfo and attach it by name
Attach ==
    /\ pc = "attach"
    /\ LET a == AttachFailure(blk, self.test_results)
       IN  CASE a.kind = "panic" ->
                  /\ Stop(Panicked("called Option::unwrap() on a None value"))
                  /\ UNCHANGED parser
             [] a.kind = "Err" ->
                  /\ Stop(Err("MalformedLocation", self.state))
                  /\ UNCHANGED parser
             [] a.kind = "ok" ->
                  /\ parser' = Some([self EXCEPT !.test_results = a.results])
                  /\ pc' = "scan"
                  /\ UNCHANGED outcome
    /\ UNCHANGED <<stream, pos, peeked, current_artifact, test_runs, fb, mainVars>>

\* a faulty variant of AfterScan: the failure listing is not a state of its own
AfterScanToResults(more_failures, failure_parsing_state) ==
    IF more_failures
    THEN /\ fb' = Some(NewBlock("", failure_parsing_state))
         /\ pc' = IF failure_parsing_state # "Done" THEN "failure" ELSE "attach"
         /\ UNCHANGED parser
    ELSE /\ fb' = None
         /\ parser' = Some([self EXCEPT !.state = "Results"])
         /\ pc' = "run"

\* lib.rs:378-381 and the loop heads at 261-267, once the forward scan has ended
\* with more_failures and failure_parsing_state as given
AfterScan(more_failures, failure_parsing_state) ==
    IF more_failures
    THEN /\ fb' = Some(NewBlock("", failure_parsing_state))
         /\ pc' = IF failure_parsing_state # "Done" THEN "failure" ELSE "attach"
         /\ UNCHANGED parser
    ELSE /\ fb' = None
         /\ parser' = Some([self EXCEPT !.state = "FailuresListing"])
         /\ pc' = "run"

\* a faulty variant of ScanHeader: the header line peeked is taken
ScanHeaderTakes ==
    /\ pc = "scan"
    /\ PeekIsText
    /\ FAILURE_HEADER_REGEX(Cur.text).matched
    /\ Consume
    /\ AfterScan(TRUE, "Header")
    /\ UNCHANGED <<stream, current_artifact, test_runs, outcome, mainVars>>

\* the forward scan (lib.rs:364-377) peeks another failure header
ScanHeader ==
    /\ pc = "scan"
    /\ PeekIsText
    /\ FAILURE_HEADER_REGEX(Cur.text).matched
    /\ Peek
    /\ AfterScan(TRUE, "Header")
    /\ UNCHANGED <<stream, current_artifact, test_runs, outcome, mainVars>>

\* the forward scan peeks the "failures:" listing
ScanListing ==
    /\ pc = "scan"
    /\ PeekIsText
    /\ ~FAILURE_HEADER_REGEX(Cur.text).matched
    /\ Trim(Cur.text) = "failures:"
    /\ Peek
    /\ AfterScan(FALSE, blk.failure_parsing_state)
    /\ UNCHANGED <<stream, current_artifact, test_runs, outcome, mainVars>>

\* the forward scan skips any other line
ScanSkip ==
    /\ pc = "scan"
    /\ PeekIsText
    /\ ~FAILURE_HEADER_REGEX(Cur.text).matched
    /\ Trim(Cur.text) # "failures:"
    /\ Consume
    /\ UNCHANGED <<stream, current_artifact, test_runs, parser, fb, pc, outcome, mainVars>>

\* the forward scan finds no text line: the loop ends with more_failures still
\* true and failure_parsing_state still Done
ScanExit ==
    /\ pc = "scan"
    /\ ~PeekIsText
    /\ Peek
    /\ AfterScan(blk.more_failures, blk.failure_parsing_state)
    /\ UNCHANGED <<stream, current_artifact, test_runs, outcome, mainVars>>

(***************************************************************************)
(* main (main.rs:55-198): the annotations                                  *)
(***************************************************************************)
\* the correction constants of main.rs:119-120
DOCTEST_LINE_OFFSET == 3
DOCTEST_COLUMN_OFFSET == 4
\* the API limit of main.rs:175
ANNOTATION_LIMIT == 50

parserVars == <<stream, pos, peeked, current_artifact, test_runs, parser, fb, outcome, first>>

IsFailed(t) == t.result.tag = "Failed"

AnyFailed(test_results) == \E i \in 1..Len(test_results) : IsFailed(test_results[i])

\* the two filters of main.rs:59-69
IsReported(r) ==
    /\ r.test_run.test_count # U64Zero \/ r.doc_test_run.test_count # U64Zero
    /\ AnyFailed(r.test_run.test_results) \/ AnyFailed(r.doc_test_run.test_results)

\* features.join(", ")
RECURSIVE Join(_, _)
Join(ss, sep) ==
    IF Len(ss) = 0 THEN ""
    ELSE IF Len(ss) = 1 THEN ss[1]
    ELSE ss[1] \o sep \o Join(Tail(ss), sep)

\* .replace("\r\n", "\n").replace('\r', "\n") on s[lo..hi]: a '\r' before a
\* '\n' goes, any other '\r' becomes '\n'
RECURSIVE NormalizeNewlines(_, _, _)
NormalizeNewlines(s, lo, hi) ==
    IF lo > hi THEN ""
    ELSE IF lo = hi
    THEN IF Ch(s, lo) # "\r" THEN Ch(s, lo)
         ELSE IF StartsAt(s, lo, "\r\n") THEN "" ELSE "\n"
    ELSE NormalizeNewlines(s, lo, (lo + hi) \div 2)
             \o NormalizeNewlines(s, (lo + hi) \div 2 + 1, hi)

\* the CheckRunOutputAnnotation pushed for `result` at (line, column); `gap` is the
\* line between the features and the cause (main.rs:90-95, 134-139)
Annotation(result, features, line, column, gap) ==
    LET failure == result.result.failure[1]
    IN  [annotation_level |-> "Failure",
         path         |-> failure.location.file,
         start_line   |-> AsU32(line),
         end_line     |-> AsU32(line),
         start_column |-> Some(AsU32(column)),
         end_column   |-> None,
         message      |-> "features: [" \o Join(features, ", ") \o "]\n" \o gap \o "\ncause:\n"
                             \o NormalizeNewlines(failure.panic_text, 1, Len(failure.panic_text)) \o "\n\n"
                             \o NormalizeNewlines(failure.stacktrace, 1, Len(failure.stacktrace)),
         title        |-> Some(result.name),
         \* the value that format!("{:#?}", result) prints
         raw_details  |-> Some(result)]

\* a faulty variant of CorrectLocation: the column is left as reported
CorrectLocationKeepsColumn(result) ==
    LET location == result.result.failure[1].location
        c    == DOCTEST_NAME_FILE_REGEX(result.name)
        line == U64Parse(c.line)
        sum  == U64Add(location.line, line.val)
        real_line == U64Sub(sum.val, U64FromNat(DOCTEST_LINE_OFFSET))
    IN  IF ~c.matched \/ ~line.ok
        THEN [kind |-> "Err", error |-> IF c.matched THEN "MalformedLine"
                                         ELSE "MalformedDoctestName",
              file |-> "", real_line |-> U64Zero, real_column |-> U64Zero, overflow |-> FALSE]
        ELSE [kind |-> "Ok", error |-> "", file |-> c.file, real_line |-> real_line.val,
              real_column |-> location.column,
              overflow |-> sum.overflow \/ real_line.overflow]

\* a faulty variant of CorrectLocation: a name of another shape counts as line 0
\* of the reported file
CorrectLocationNeverFails(result) ==
    LET location == result.result.failure[1].location
        c    == DOCTEST_NAME_FILE_REGEX(result.name)
        line == IF c.matched THEN U64Parse(c.line) ELSE [ok |-> TRUE, val |-> U64Zero]
        sum  == U64Add(location.line, line.val)
        real_line   == U64Sub(sum.val, U64FromNat(DOCTEST_LINE_OFFSET))
        real_column == U64Add(location.column, U64FromNat(DOCTEST_COLUMN_OFFSET))
    IN  IF ~line.ok
        THEN [kind |-> "Err", error |-> "MalformedLine",
              file |-> "", real_line |-> U64Zero, real_column |-> U64Zero, overflow |-> FALSE]
        ELSE [kind |-> "Ok", error |-> "", file |-> location.file,
              real_line |-> real_line.val, real_column |-> real_column.val,
              overflow |-> sum.overflow \/ real_line.overflow \/ real_column.overflow]

\* a faulty variant of CorrectLocation: a line before the first line of the file
\* is an error value
CorrectLocationGuardsLine(result) ==
    LET location == result.result.failure[1].location
        c    == DOCTEST_NAME_FILE_REGEX(result.name)
        line == U64Parse(c.line)
        sum  == U64Add(location.line, line.val)
        real_line   == U64Sub(sum.val, U64FromNat(DOCTEST_LINE_OFFSET))
        real_column == U64Add(location.column, U64FromNat(DOCTEST_COLUMN_OFFSET))
    IN  IF ~c.matched \/ ~line.ok \/ real_line.overflow
        THEN [kind |-> "Err", error |-> IF c.matched /\ ~line.ok THEN "MalformedLine"
                                         ELSE "MalformedDoctestName",
              file |-> "", real_line |-> U64Zero, real_column |-> U64Zero, overflow |-> FALSE]
        ELSE [kind |-> "Ok", error |-> "", file |-> c.file, real_line |-> real_line.val,
              real_column |-> real_column.val,
              overflow |-> sum.overflow \/ real_line.overflow \/ real_column.overflow]

\* the closure of main.rs:114-124 for a failed documentation test:
\* [kind, error, file, real_line, real_column, overflow]; the error is the bail! of
\* line 123 when the name has another shape, the ParseIntError of line 117 when
\* <N> is no u64
CorrectLocation(result) ==
    LET location == result.result.failure[1].location
        c    == DOCTEST_NAME_FILE_REGEX(result.name)
        line == U64Parse(c.line)
        sum  == U64Add(location.line, line.val)
        real_line   == U64Sub(sum.val, U64FromNat(DOCTEST_LINE_OFFSET))
        real_column == U64Add(location.column, U64FromNat(DOCTEST_COLUMN_OFFSET))
    IN  IF ~c.matched \/ ~line.ok
        THEN [kind |-> "Err", error |-> IF c.matched THEN "MalformedLine"
                                         ELSE "MalformedDoctestName",
              file |-> "", real_line |-> U64Zero, real_column |-> U64Zero, overflow |-> FALSE]
        ELSE [kind |-> "Ok", error |-> "", file |-> c.file, real_line |-> real_line.val,
              real_column |-> real_column.val,
              overflow |-> sum.overflow \/ real_line.overflow \/ real_column.overflow]

CurRun == outcome.value[ri]

\* main.rs:55: the `?` on parse's result; a panic in parse ends the process
MainPropagate ==
    /\ pc = "exit"
    /\ main_outcome = Running
    /\ main_outcome' = outcome
    /\ pc' = "done"
    /\ UNCHANGED <<parserVars, ri, qi, overflow_checks, real, annotations, conclusion>>

\* a test run that the filters drop
MainSkipRun ==
    /\ pc = "main"
    /\ ri <= Len(outcome.value)
    /\ ~IsReported(CurRun)
    /\ ri' = ri + 1
    /\ UNCHANGED <<parserVars, pc, qi, overflow_checks, real, annotations, conclusion,
                   main_outcome>>

MainEnterRun ==
    /\ pc = "main"
    /\ ri <= Len(outcome.value)
    /\ IsReported(CurRun)
    /\ pc' = "main_tests"
    /\ qi' = 1
    /\ UNCHANGED <<parserVars, ri, overflow_checks, real, annotations, conclusion,
                   main_outcome>>

\* main.rs:73-103: one result of the plain tests
MainTestResult ==
    /\ pc = "main_tests"
    /\ qi <= Len(CurRun.test_run.test_results)
    /\ LET result == CurRun.test_run.test_results[qi]
       IN  annotations' =
             IF IsFailed(result)
             THEN Append(annotations,
                         Annotation(result, CurRun.features,
                                    result.result.failure[1].location.line,
                                    result.result.failure[1].location.column, ""))
             ELSE annotations
    /\ qi' = qi + 1
    /\ UNCHANGED <<parserVars, pc, ri, overflow_checks, real, conclusion, main_outcome>>

MainTestsEnd ==
    /\ pc = "main_tests"
    /\ qi > Len(CurRun.test_run.test_results)
    /\ pc' = "main_doctests"
    /\ qi' = 1
    /\ UNCHANGED <<parserVars, ri, overflow_checks, real, annotations, conclusion,
                   main_outcome>>

\* main.rs:104-147: a documentation test that passed is filtered out
MainDocSkip ==
    /\ pc = "main_doctests"
    /\ qi <= Len(CurRun.doc_test_run.test_results)
    /\ ~IsFailed(CurRun.doc_test_run.test_results[qi])
    /\ qi' = qi + 1
    /\ UNCHANGED <<parserVars, pc, ri, overflow_checks, real, annotations, conclusion,
                   main_outcome>>

\* main.rs:104-147: a failed documentation test whose name has the wrong shape,
\* or whose <N> does not parse: the `?` of line 124 returns the error
MainDocMalformed ==
    /\ pc = "main_doctests"
    /\ qi <= Len(CurRun.doc_test_run.test_results)
    /\ IsFailed(CurRun.doc_test_run.test_results[qi])
    /\ CorrectLocation(CurRun.doc_test_run.test_results[qi]).kind = "Err"
    /\ main_outcome' = Err(CorrectLocation(CurRun.doc_test_run.test_results[qi]).error, "")
    /\ pc' = "done"
    /\ UNCHANGED <<parserVars, ri, qi, overflow_checks, real, annotations, conclusion>>

\* the annotation of a failed documentation test at its corrected location
DocAnnotate(result, c) ==
    /\ real' = Some(<<c.file, c.real_line, c.real_column>>)
    /\ annotations' = Append(annotations,
                             Annotation(result, CurRun.features, c.real_line, c.real_column,
                                        "    "))
    /\ qi' = qi + 1
    /\ UNCHANGED <<pc, main_outcome>>

\* main.rs:104-147: a failed documentation test, no arithmetic overflow
MainDocResult ==
    /\ pc = "main_doctests"
    /\ qi <= Len(CurRun.doc_test_run.test_results)
    /\ IsFailed(CurRun.doc_test_run.test_results[qi])
    /\ LET c == CorrectLocation(CurRun.doc_test_run.test_results[qi])
       IN  /\ c.kind = "Ok"
           /\ ~c.overflow
           /\ DocAnnotate(CurRun.doc_test_run.test_results[qi], c)
    /\ UNCHANGED <<parserVars, ri, overflow_checks, conclusion>>

\* the same where line + N - 3 or column + 4 leaves the u64 range, in a build
\* without overflow checks: the values wrap
MainDocWrap ==
    /\ pc = "main_doctests"
    /\ qi <= Len(CurRun.doc_test_run.test_results)
    /\ IsFailed(CurRun.doc_test_run.test_results[qi])
    /\ overflow_checks \in {"any", "off"}
    /\ LET c == CorrectLocation(CurRun.doc_test_run.test_results[qi])
       IN  /\ c.kind = "Ok"
           /\ c.overflow
           /\ DocAnnotate(CurRun.doc_test_run.test_results[qi], c)
    /\ overflow_checks' = "off"
    /\ UNCHANGED <<parserVars, ri, conclusion>>

\* the same in a build with overflow checks: the arithmetic panics
MainDocOverflow ==
    /\ pc = "main_doctests"
    /\ qi <= Len(CurRun.doc_test_run.test_results)
    /\ IsFailed(CurRun.doc_test_run.test_results[qi])
    /\ overflow_checks \in {"any", "on"}
    /\ LET c == CorrectLocation(CurRun.doc_test_run.test_results[qi])
       IN  c.kind = "Ok" /\ c.overflow
    /\ overflow_checks' = "on"
    /\ main_outcome' = Panicked("attempt to add or subtract with overflow")
    /\ pc' = "done"
    /\ UNCHANGED <<parserVars, ri, qi, real, annotations, conclusion>>

MainDocEnd ==
    /\ pc = "main_doctests"
    /\ qi > Len(CurRun.doc_test_run.test_results)
    /\ ri' = ri + 1
    /\ pc' = "main"
    /\ UNCHANGED <<parserVars, qi, overflow_checks, real, annotations, conclusion,
                   main_outcome>>

\* main.rs:157-197: the check run that is created
Report ==
    /\ pc = "main"
    /\ ri > Len(outcome.value)
    /\ IF Len(annotations) = 0
       THEN conclusion' = "Success" /\ main_outcome' = Ok(<<>>)
       ELSE IF Len(annotations) < ANNOTATION_LIMIT
       THEN conclusion' = "Failure" /\ main_outcome' = Ok(<<>>)
       ELSE conclusion' = conclusion /\ main_outcome' = Panicked("not yet implemented")
    /\ pc' = "done"
    /\ UNCHANGED <<parserVars, ri, qi, overflow_checks, real, annotations>>

(***************************************************************************)
(* Specification                                                           *)
(***************************************************************************)
Next ==
    \/ ParseEnd \/ ParseArtifact \/ ParseIrrelevant \/ ParseTextLine
    \/ DiscardText \/ DiscardEnd
    \/ RunReturn \/ RunPhaseAdvance \/ RunEndOfStream \/ RunUnexpected
    \/ RunInitial \/ RunTests \/ RunFailuresOutput \/ RunFailuresListing \/ RunResults
    \/ ListingSkip \/ ListingBlank \/ ListingExit
    \/ FailureInitial \/ FailureHeader
    \/ PanicAppend \/ PanicSplit \/ PanicExit
    \/ StackAppend \/ StackEnd \/ StackExit
    \/ FailureNextText \/ FailureNextUnexpected \/ FailureNextEnd
    \/ Attach \/ ScanHeader \/ ScanListing \/ ScanSkip \/ ScanExit
    \/ MainPropagate \/ MainSkipRun \/ MainEnterRun
    \/ MainTestResult \/ MainTestsEnd
    \/ MainDocSkip \/ MainDocMalformed \/ MainDocResult \/ MainDocWrap \/ MainDocOverflow
    \/ MainDocEnd \/ Report

Spec == Init /\ [][Next]_vars

(***************************************************************************)
(* parse called twice on the same records with the same metadata           *)
(***************************************************************************)
\* a faulty variant of Reparse: test_runs is kept from the first call
ReparseKeepsRuns ==
    /\ pc \in {"main", "exit"}
    /\ first = None
    /\ first' = Some(outcome)
    /\ pos' = 0
    /\ peeked' = FALSE
    /\ current_artifact' = None
    /\ parser' = None
    /\ fb' = None
    /\ pc' = "parse"
    /\ outcome' = Running
    /\ UNCHANGED <<stream, test_runs, ri, qi, overflow_checks, real, annotations, conclusion,
                   main_outcome>>

\* the first call has returned; the second starts with the locals of lib.rs:28-33
\* fresh, on a reader that yields the same records
Reparse ==
    /\ pc \in {"main", "exit"}
    /\ first = None
    /\ first' = Some(outcome)
    /\ pos' = 0
    /\ peeked' = FALSE
    /\ current_artifact' = None
    /\ test_runs' = <<>>
    /\ parser' = None
    /\ fb' = None
    /\ pc' = "parse"
    /\ outcome' = Running
    /\ UNCHANGED <<stream, ri, qi, overflow_checks, real, annotations, conclusion,
                   main_outcome>>

NextTwice ==
    \/ ParseEnd \/ ParseArtifact \/ ParseIrrelevant \/ ParseTextLine
    \/ DiscardText \/ DiscardEnd
    \/ RunReturn \/ RunPhaseAdvance \/ RunEndOfStream \/ RunUnexpected
    \/ RunInitial \/ RunTests \/ RunFailuresOutput \/ RunFailuresListing \/ RunResults
    \/ ListingSkip \/ ListingBlank \/ ListingExit
    \/ FailureInitial \/ FailureHeader
    \/ PanicAppend \/ PanicSplit \/ PanicExit
    \/ StackAppend \/ StackEnd \/ StackExit
    \/ FailureNextText \/ FailureNextUnexpected \/ FailureNextEnd
    \/ Attach \/ ScanHeader \/ ScanListing \/ ScanSkip \/ ScanExit
    \/ Reparse

SpecTwice == Init /\ [][NextTwice]_vars

(***************************************************************************)
(* Properties                                                              *)
(***************************************************************************)
\* what parse returned once main has it, and every TestData in it
Returned == IF outcome.kind = "Ok" THEN outcome.value ELSE <<>>

ReturnedData ==
    {Returned[i].test_run : i \in 1..Len(Returned)}
        \cup {Returned[i].doc_test_run : i \in 1..Len(Returned)}

InfoCount(d) ==
    Cardinality({j \in 1..Len(d.test_results) : d.test_results[j].result.failure # None})

FailedCount(d) ==
    Cardinality({j \in 1..Len(d.test_results) : IsFailed(d.test_results[j])})

\* the segments of the end-to-end scenario, in the layout libtest prints: a blank
\* line after the test lines, after each failure block and after the listing
C1_Streams == {FailingRun(f, n) : f \in 1..MaxFrames, n \in 0..MaxNoise}

\* C1: for a segment that declares "running 2 tests", then "test a ... ok" and
\* "test b ... FAILED", a "failures:" section with one well-formed block for b,
\* the listing, the FAILED summary, then "running 0 tests" and an ok summary,
\* parse returns exactly one TestRun: its plain data has the 2 results a (Ok)
\* and b (Failed, with failure info), its documentation data has test_count 0
\* and no results.
C1_EndToEnd ==
    (stream \in C1_Streams /\ outcome.kind # "running") =>
        /\ outcome.kind = "Ok"
        /\ Len(outcome.value) = 1
        /\ LET r == outcome.value[1]
               a == r.test_run.test_results[1]
               b == r.test_run.test_results[2]
           IN  /\ r.package = "app 0.1.0"
               /\ r.test_run.test_count = U64FromNat(2)
               /\ Len(r.test_run.test_results) = 2
               /\ a = [name |-> "a", result |-> [tag |-> "Ok", failure |-> None]]
               /\ b.name = "b"
               /\ b.result.tag = "Failed"
               /\ b.result.failure # None
               /\ b.result.failure[1].panic_text
                      = "thread 'b' panicked at 'assertion failed: a == b'"
               /\ b.result.failure[1].location
                      = [file |-> "src/lib.rs", line |-> U64FromNat(10),
                         column |-> U64FromNat(5)]
               /\ r.test_run.test_summary.result = "Failed"
               /\ r.doc_test_run.test_count = U64Zero
               /\ r.doc_test_run.test_results = <<>>
               /\ r.doc_test_run.test_summary.result = "Ok"

\* the largest scenario segment has been parsed and handed to main
C1_Parsed ==
    /\ stream = FailingRun(MaxFrames, MaxNoise)
    /\ outcome.kind = "Ok"
    /\ Len(outcome.value) = 1
    /\ pc = "done"

\* C2: in every TestRun that parse builds or returns, in the plain and in the
\* documentation data, every result whose outcome is Failed carries a
\* FailureInfo with panic text, location and stack trace.
C2_FailedCarriesInfo ==
    \A rs \in {test_runs, Returned} : \A i \in 1..Len(rs) :
        \A d \in {rs[i].test_run, rs[i].doc_test_run} :
            \A j \in 1..Len(d.test_results) :
                IsFailed(d.test_results[j]) =>
                    /\ d.test_results[j].result.failure # None
                    /\ DOMAIN d.test_results[j].result.failure[1]
                           = {"panic_text", "location", "stacktrace"}

\* parse has returned a run with a failed documentation test
C2_FailedReturned ==
    /\ outcome.kind = "Ok"
    /\ \E i \in 1..Len(outcome.value) : AnyFailed(outcome.value[i].doc_test_run.test_results)

\* C3 as stated: for every TestData returned by parse whose phase had a FAILED
\* test line, the number of results carrying a FailureInfo equals the failed
\* count of its summary.
C3_InfoCountIsSummaryFailed ==
    \A d \in ReturnedData :
        AnyFailed(d.test_results) => U64FromNat(InfoCount(d)) = d.test_summary.failed

\* C3, amended: for every TestData returned by parse, the number of results
\* carrying a FailureInfo equals the number of results whose outcome is Failed.
C3_InfoCountIsFailedCount ==
    \A d \in ReturnedData : InfoCount(d) = FailedCount(d)

\* a returned TestData with a failure whose summary states another failed count
C3_SummaryDisagrees ==
    \E d \in ReturnedData :
        /\ AnyFailed(d.test_results)
        /\ InfoCount(d) = FailedCount(d)
        /\ U64FromNat(InfoCount(d)) # d.test_summary.failed

\* parse has stopped at lib.rs:352-362 with a complete block whose name is not
\* among the pending results
C4_UnknownName ==
    /\ pc \in {"exit", "done"}
    /\ parser # None
    /\ fb # None
    /\ blk.failure_parsing_state = "Done"
    /\ Trim(blk.text_inner) = ""
    /\ blk.name # None /\ blk.panic_text # None /\ blk.stacktrace # None
    /\ blk.location # None
    /\ TestFailureLocationFromStr(blk.location[1]).ok
    /\ FindByName(self.test_results, blk.name[1], 1) = 0

\* C4: if a failure block's header names a test that was not recorded in the
\* Tests state of the phase, parse fails with a NoSuchPendingResult error
\* value, and no TestRun sequence is returned.
C4_NoSuchPendingResult ==
    C4_UnknownName =>
        /\ outcome.kind = "Err"
        /\ outcome.error = "NoSuchPendingResult"
        /\ outcome.value = <<>>

\* what the code does there: the unwrap of lib.rs:361 panics
C4_Panics ==
    /\ C4_UnknownName
    /\ outcome.kind = "panic"

\* the record the run parser last took or looked at is a typed event
TypedAtCursor ==
    \/ pos >= 1 /\ ~IsText(stream[pos])
    \/ peeked /\ HasNext /\ ~IsText(Cur)

\* C5: whenever a typed event is the next record while a run parser is active,
\* in any outer state and in any state of the failure loop, the forward scan
\* after a finished block included, parse fails with an UnexpectedRecord error
\* that names the parser's state.
C5_UnexpectedRecord ==
    (pc \in {"exit", "done"} /\ parser # None /\ TypedAtCursor) =>
        /\ outcome.kind = "Err"
        /\ outcome.error = "UnexpectedRecord"
        /\ outcome.state = self.state

\* what the code does when the forward scan peeks a typed event: the next
\* round of `while more_failures` unwraps a panic_text that is None
C5_ScanPanics ==
    /\ pc \in {"exit", "done"}
    /\ parser # None
    /\ peeked /\ HasNext /\ ~IsText(Cur)
    /\ outcome.kind = "panic"

\* the partitioner is about to take a text line whose artifact is in no workspace package
C6_UnresolvedNext ==
    /\ pc = "parse"
    /\ HasNext /\ IsText(Cur)
    /\ current_artifact # None
    /\ current_artifact[1].package_id \notin WorkspacePackages

\* the record at pos is the first text line after the last executable artifact,
\* and that artifact is in no workspace package
C6_AtFirstTextLine ==
    /\ pos >= 2
    /\ IsText(stream[pos])
    /\ \E a \in 1..(pos - 1) :
        /\ IsExecutableArtifact(stream[a])
        /\ stream[a].package_id \notin WorkspacePackages
        /\ \A j \in (a + 1)..(pos - 1) :
               ~IsText(stream[j]) /\ ~IsExecutableArtifact(stream[j])

\* C6: when the partitioner sees the first text line after an executable
\* artifact whose package id matches no workspace package, parse fails with
\* UnresolvedPackage; no run parser has been or is constructed and no further
\* record is consumed.
C6_UnresolvedPackage ==
    /\ [][C6_UnresolvedNext =>
            /\ outcome' = [kind |-> "Err", value |-> <<>>,
                           error |-> "UnresolvedPackage", state |-> ""]
            /\ pos' = pos + 1
            /\ pc' = "exit"
            /\ parser = None /\ parser' = None]_vars
    /\ [](outcome.error = "UnresolvedPackage" => C6_AtFirstTextLine /\ parser = None)
    /\ [][outcome.error = "UnresolvedPackage" => pos' = pos /\ parser' = None]_vars

\* parse has failed with UnresolvedPackage at the first line of a later segment
C6_Unresolved ==
    /\ outcome.kind = "Err"
    /\ outcome.error = "UnresolvedPackage"
    /\ test_runs # <<>>
    /\ parser = None

\* the text line r ends with the non-empty text l
EndsWith(r, l) ==
    /\ IsText(r)
    /\ l # ""
    /\ Len(l) <= Len(Trim(r.text))
    /\ SubSeq(Trim(r.text), Len(Trim(r.text)) - Len(l) + 1, Len(Trim(r.text))) = l

\* the last record consumed is the one the error is about
C7_FailingRecordIsLast ==
    /\ pos >= 1
    /\ CASE outcome.error = "UnresolvedPackage" -> IsText(stream[pos])
         [] outcome.error = "UnexpectedRecord" -> ~IsText(stream[pos])
         [] outcome.error = "MalformedCount" ->
                /\ IsText(stream[pos])
                /\ RUNNING_REGEX(stream[pos].text).matched
                /\ ~U64Parse(RUNNING_REGEX(stream[pos].text).count).ok
         [] outcome.error = "MalformedResultLine" ->
                /\ IsText(stream[pos])
                /\ RESULT_REGEX(stream[pos].text).matched
         [] outcome.error = "MalformedLocation" -> EndsWith(stream[pos], blk.location[1])
         [] OTHER -> FALSE

\* a malformed location is found when its block is complete: the last record
\* consumed is the blank line that ends the block's stack trace, and the line
\* with the location lies before the "stack backtrace:" line
C7_BlockConsumed ==
    /\ pos >= 3
    /\ IsText(stream[pos]) /\ Trim(stream[pos].text) = ""
    /\ ~TestFailureLocationFromStr(blk.location[1]).ok
    /\ \E j \in 1..(pos - 2) :
        /\ IsText(stream[j + 1]) /\ Trim(stream[j + 1].text) = "stack backtrace:"
        /\ \A k \in (j + 1)..pos : IsText(stream[k])
        /\ blk.location[1] # "" => EndsWith(stream[j], blk.location[1])

\* C7 as stated: whenever an error occurs during parse, parse stops at that
\* record and returns only the error: no TestRun is returned, those of earlier
\* segments included, and no record after the failing one is consumed.
C7_StopsAtFailingRecord ==
    outcome.kind = "Err" =>
        /\ outcome.value = <<>>
        /\ C7_FailingRecordIsLast

\* C7, amended: whenever an error occurs during parse, parse returns only the
\* error: no TestRun is returned or reported, those of earlier segments
\* included, and no record is consumed after the error is raised.  The error
\* is raised at the failing record, except that a location that does not
\* parse is found only once its block is complete, after the block's
\* stack-trace lines and the blank line that ends them have been consumed.
C7_ErrorAborts ==
    /\ [](outcome.kind = "Err" =>
            /\ outcome.value = <<>>
            /\ annotations = <<>> /\ conclusion = "none"
            /\ main_outcome \in {Running, outcome}
            /\ IF outcome.error = "MalformedLocation"
               THEN C7_BlockConsumed
               ELSE C7_FailingRecordIsLast)
    /\ [][outcome.kind = "Err" =>
            pos' = pos /\ test_runs' = test_runs /\ outcome' = outcome]_vars

\* a location that does not parse has ended the parse after an earlier
\* segment's run was built, and main has returned the error
C7_MalformedAfterRun ==
    /\ outcome.kind = "Err"
    /\ outcome.error = "MalformedLocation"
    /\ test_runs # <<>>
    /\ main_outcome = outcome
    /\ pc = "done"

C8_Streams == {TwoFailures(f) : f \in 1..MaxFrames}

\* the Panic state ends in this step
C8_SplitStep ==
    /\ pc = "failure"
    /\ fb # None /\ blk.failure_parsing_state = "Panic"
    /\ fb' # None /\ fb'[1].failure_parsing_state = "Stacktrace"

\* the failure infos of the two blocks of TwoFailures
C8_Example ==
    (stream \in C8_Streams /\ outcome.kind = "Ok") =>
        LET b == outcome.value[1].test_run.test_results[1].result.failure[1]
            c == outcome.value[1].test_run.test_results[2].result.failure[1]
        IN  /\ c.panic_text = "assertion failed: a == b"
            /\ c.location = [file |-> "src/lib.rs", line |-> U64FromNat(10),
                             column |-> U64FromNat(5)]
            /\ b.panic_text = "thread 'b' panicked at 'left: 1, 2,\n right: 3'"
            /\ b.location = [file |-> "src/b.rs", line |-> U64FromNat(7),
                             column |-> U64FromNat(9)]

\* C8: when the Panic state ends, the accumulated text is split at its last
\* comma: the text before it is the panic message, the text after it, the
\* leading ", " stripped, is parsed as file:line:column.  For
\* "assertion failed: a == b, src/lib.rs:10:5" the message is
\* "assertion failed: a == b" and the location is (src/lib.rs, 10, 5); commas
\* inside the message stay in the message.
C8_PanicSplit ==
    /\ [][C8_SplitStep =>
            \E k \in 1..Len(blk.text_inner) :
                /\ Ch(blk.text_inner, k) = ","
                /\ \A j \in (k + 1)..Len(blk.text_inner) : Ch(blk.text_inner, j) # ","
                /\ SubSeq(blk.text_inner, k, k + 1) = ", "
                /\ fb'[1].panic_text = Some(SubSeq(blk.text_inner, 1, k - 1))
                /\ fb'[1].location
                       = Some(Trim(SubSeq(blk.text_inner, k + 2, Len(blk.text_inner))))]_vars
    /\ [][(pc = "attach" /\ pc' = "scan") =>
            \E i \in 1..Len(self.test_results) :
                /\ parser'[1].test_results[i].failure_info # None
                /\ parser'[1].test_results[i].failure_info[1].panic_text = blk.panic_text[1]
                /\ parser'[1].test_results[i].failure_info[1].location
                       = TestFailureLocationFromStr(blk.location[1]).val]_vars
    /\ []C8_Example

\* both blocks of TwoFailures have been split and the run returned
C8_Split ==
    /\ stream = TwoFailures(MaxFrames)
    /\ outcome.kind = "Ok"
    /\ AnyFailed(outcome.value[1].test_run.test_results)

\* the documentation test main has just annotated
LastDoc == CurRun.doc_test_run.test_results[qi - 1]

DocAnnotated ==
    /\ pc = "main_doctests"
    /\ qi > 1
    /\ IsFailed(LastDoc)

\* the failure "src/lib.rs - (line 42)" reported at (file, 44, 1) has been annotated
C9_Case ==
    /\ DocAnnotated
    /\ LastDoc.name = "src/lib.rs - (line 42)"
    /\ LastDoc.result.failure[1].location.line = U64FromNat(44)
    /\ LastDoc.result.failure[1].location.column = U64FromNat(1)

\* C9 as stated: for a documentation-test failure named "src/lib.rs - (line 42)"
\* with reported location (file, line 44, column 1), the corrected location is
\* (file, line 43, column 5).
C9_Line43 ==
    C9_Case => real = Some(<<"src/lib.rs", U64FromNat(43), U64FromNat(5)>>)

\* C9, amended: for a documentation-test failure named "src/lib.rs - (line 42)"
\* with reported location (file, line 44, column 1), the corrected location is
\* (file, line 83, column 5), 83 being 44 + 42 - 3, and the annotation is put
\* there.
C9_Line83 ==
    C9_Case =>
        /\ real = Some(<<"src/lib.rs", U64FromNat(83), U64FromNat(5)>>)
        /\ annotations[Len(annotations)].start_line = AsU32(U64FromNat(83))
        /\ annotations[Len(annotations)].end_line = AsU32(U64FromNat(83))
        /\ annotations[Len(annotations)].start_column = Some(AsU32(U64FromNat(5)))

\* the numbers below DOCTEST_LINE_OFFSET
BelowOffset == {U64FromNat(n) : n \in 0..(DOCTEST_LINE_OFFSET - 1)}

\* for the failed documentation test t with a name of the form
\* "<file> - (line <N>)" and line + N >= 3: whether (real_line, real_column)
\* is (line + N - 3, column + 4), the sums taken in the integers
C10_Exact(t, real_line, real_column) ==
    LET location == t.result.failure[1].location
        c   == DOCTEST_NAME_FILE_REGEX(t.name)
        N   == U64Parse(c.line)
        sum == U64Add(location.line, N.val)
        col == U64Add(location.column, U64FromNat(DOCTEST_COLUMN_OFFSET))
    IN  (c.matched /\ N.ok /\ (sum.overflow \/ sum.val \notin BelowOffset)) =>
            /\ ~sum.overflow \/ sum.val \in BelowOffset
            /\ real_line = U64Sub(sum.val, U64FromNat(DOCTEST_LINE_OFFSET)).val
            /\ ~col.overflow
            /\ real_column = col.val

\* the name of t has the form and line + N >= 3
C10_Applies(t) ==
    LET c   == DOCTEST_NAME_FILE_REGEX(t.name)
        N   == U64Parse(c.line)
        sum == U64Add(t.result.failure[1].location.line, N.val)
    IN  c.matched /\ N.ok /\ (sum.overflow \/ sum.val \notin BelowOffset)

\* C10: for every documentation-test failure whose name has the form
\* "<file> - (line <N>)" and whose reported location is (file, line, column)
\* with line + N >= 3, the corrected location has real_line = line + N - 3 and
\* real_column = column + 4; failures of the plain tests are reported at their
\* parsed location without any correction.
C10_CorrectionLaw ==
    /\ DocAnnotated => C10_Exact(LastDoc, real[1][2], real[1][3])
    /\ (/\ pc = "done"
        /\ main_outcome.kind = "panic"
        /\ outcome.kind = "Ok"
        /\ ri <= Len(outcome.value)
        /\ qi <= Len(CurRun.doc_test_run.test_results)
        /\ IsFailed(CurRun.doc_test_run.test_results[qi]))
           => ~C10_Applies(CurRun.doc_test_run.test_results[qi])
    /\ (/\ pc = "main_tests"
        /\ qi > 1
        /\ IsFailed(CurRun.test_run.test_results[qi - 1]))
           => LET l == CurRun.test_run.test_results[qi - 1].result.failure[1].location
                  a == annotations[Len(annotations)]
              IN  /\ a.path = l.file
                  /\ a.start_line = AsU32(l.line)
                  /\ a.end_line = AsU32(l.line)
                  /\ a.start_column = Some(AsU32(l.column))

\* what the code does with a reported column of 2^64 - 4: column + 4 leaves the
\* u64 range although line + N >= 3, and the annotation gets column 0 or main
\* panics, depending on the build's overflow checks
C10_ColumnOverflows ==
    /\ pc \in {"main_doctests", "done"}
    /\ outcome.kind = "Ok"
    /\ ri <= Len(outcome.value)
    /\ \E t \in {CurRun.doc_test_run.test_results[j] :
                    j \in 1..Len(CurRun.doc_test_run.test_results)} :
        /\ IsFailed(t)
        /\ C10_Applies(t)
        /\ U64Add(t.result.failure[1].location.column,
                  U64FromNat(DOCTEST_COLUMN_OFFSET)).overflow
        /\ \/ main_outcome.kind = "panic"
           \/ real # None /\ real[1][3] = U64Zero

\* main is about to annotate a failed documentation test whose name does not
\* have the shape "<file> - (line <N>)"
C11_MalformedNext ==
    /\ pc = "main_doctests"
    /\ qi <= Len(CurRun.doc_test_run.test_results)
    /\ IsFailed(CurRun.doc_test_run.test_results[qi])
    /\ ~DOCTEST_NAME_FILE_REGEX(CurRun.doc_test_run.test_results[qi].name).matched

\* C11: if the name of a failed documentation test does not match the shape
\* "<file> - (line <N>)", the location correction fails with a
\* MalformedDoctestName error: main returns it, and no annotation list is
\* produced (no check run is created).
C11_MalformedDoctestName ==
    /\ [][C11_MalformedNext =>
            /\ main_outcome' = [kind |-> "Err", value |-> <<>>,
                                error |-> "MalformedDoctestName", state |-> ""]
            /\ pc' = "done"
            /\ annotations' = annotations
            /\ conclusion' = "none"]_vars
    /\ [](main_outcome.error = "MalformedDoctestName" =>
            /\ pc = "done"
            /\ conclusion = "none"
            /\ outcome.kind = "Ok")

\* main has returned the error for the documentation test "src/lib.rs - add (line 5)"
C11_Malformed ==
    /\ main_outcome.kind = "Err"
    /\ main_outcome.error = "MalformedDoctestName"
    /\ CurRun.doc_test_run.test_results[qi].name = "src/lib.rs - add (line 5)"

LastArtifact(p) ==
    stream[MaxOf({j \in 1..p : IsExecutableArtifact(stream[j])})]

\* a run parser is constructed in this step
C13_Starts == parser = None /\ parser' # None
\* a run parser returns its TestRun in this step
C13_Returns == parser # None /\ parser' = None

\* C13: when parse returns successfully, the output holds exactly one TestRun
\* per run parser invocation (one per segment started by a text line after an
\* executable artifact), in the order of the segments, each with the package
\* and the feature list, in order, of the most recent executable artifact
\* before its segment; the sequence is returned only once the stream is
\* exhausted.
C13_OneRunPerSegment ==
    /\ [][/\ C13_Starts =>
                /\ pos' = pos + 1 /\ IsText(stream[pos'])
                /\ test_runs' = test_runs
                /\ parser'[1].package = LastArtifact(pos').package_id
                /\ parser'[1].features = LastArtifact(pos').features
          /\ C13_Returns =>
                /\ Len(test_runs') = Len(test_runs) + 1
                /\ SubSeq(test_runs', 1, Len(test_runs)) = test_runs
                /\ test_runs'[Len(test_runs')].package = self.package
                /\ test_runs'[Len(test_runs')].features = self.features
                /\ self.package = LastArtifact(pos).package_id
                /\ self.features = LastArtifact(pos).features
          /\ test_runs' # test_runs => C13_Returns
          /\ (parser # None /\ parser' # None) =>
                /\ parser'[1].package = self.package
                /\ parser'[1].features = self.features]_vars
    /\ [](outcome.kind = "Ok" =>
            /\ outcome.value = test_runs
            /\ pos = Len(stream)
            /\ parser = None)
    /\ []((stream = PassingRuns(MaxNoise) /\ outcome.kind # "running") =>
            /\ outcome.kind = "Ok"
            /\ Len(outcome.value) = 2
            /\ outcome.value[1].package = "app 0.1.0"
            /\ outcome.value[1].features = <<"default", "std">>
            /\ Len(outcome.value[1].test_run.test_results) = 1
            /\ outcome.value[2].package = "util 0.1.0"
            /\ outcome.value[2].features = <<>>
            /\ outcome.value[2].test_run.test_results = <<>>)

\* the two segments of PassingRuns have been returned as two runs
C13_TwoRuns ==
    /\ stream = PassingRuns(MaxNoise)
    /\ outcome.kind = "Ok"
    /\ Len(outcome.value) = 2
    /\ pos = Len(stream)

\* C14: after a run parser returns, the partitioner consumes and discards every
\* immediately following contiguous text line, starting no run parser for them
\* and adding no TestRun, and stops discarding at the first typed event or at
\* the end of the stream, which it only peeks and does not consume.
C14_DiscardsTrailingText ==
    /\ [][C13_Returns => pc' = "discard" /\ pos' = pos]_vars
    /\ [][pc = "discard" =>
            /\ parser' = None
            /\ test_runs' = test_runs
            /\ current_artifact' = current_artifact
            /\ IF HasNext /\ IsText(Cur)
               THEN pos' = pos + 1 /\ pc' = "discard"
               ELSE pos' = pos /\ pc' = "parse"]_vars
    /\ []((pc = "parse" /\ test_runs # <<>> /\ pos >= 1 /\ IsText(stream[pos])) =>
            ~HasNext \/ ~IsText(Cur))

\* two text lines after a run have been discarded and the typed event that
\* follows them is still to be consumed
C14_StoppedAtTypedEvent ==
    /\ pc = "parse"
    /\ test_runs # <<>>
    /\ parser = None
    /\ pos >= 2 /\ IsText(stream[pos]) /\ IsText(stream[pos - 1])
    /\ stream[pos - 1].text # stream[pos].text
    /\ HasNext /\ ~IsText(Cur)

\* the results the run parser has recorded or stored, and the runs and the artifact
\* of the partitioner
Recorded ==
    <<current_artifact, test_runs,
      IF parser = None THEN None
      ELSE Some(<<self.test_count, self.test_results, self.test_run, self.doc_test_run>>)>>

\* C15: across partitioner, run parser and failure-block parser every record is
\* consumed at most once and in stream order: the cursor never decreases and
\* moves by one record at a time.  A peek does not advance the cursor and
\* changes nothing that has been recorded: the record peeked stays the next
\* one to be consumed.  No component looks further than the one record after
\* the last consumed one, which is all the Peekable holds.
C15_SinglePass ==
    /\ [][/\ stream' = stream
          /\ pos' \in {pos, pos + 1}
          /\ pos' <= Len(stream)
          /\ peeked' =>
                /\ pos' = pos
                /\ Recorded' = Recorded
          /\ (peeked /\ pos' = pos + 1) => stream'[pos'] = Cur]_vars
    /\ [](pos \in 0..Len(stream))

\* the Panic state has peeked the "stack backtrace:" line, which is still to be consumed
C15_Peeked ==
    /\ peeked
    /\ fb # None /\ blk.failure_parsing_state = "Stacktrace"
    /\ pc = "failure_next"
    /\ HasNext /\ IsText(Cur) /\ Trim(Cur.text) = "stack backtrace:"

\* the run parser takes a text line in outer state st in this step
C16_Takes(st) ==
    /\ pc = "run"
    /\ parser # None /\ parser' # None
    /\ self.state = st
    /\ pos' = pos + 1
    /\ IsText(Cur)

\* the TestData the run parser stores in this step, None if it stores none
C16_Stored ==
    IF self.test_run = None /\ parser'[1].test_run # None THEN parser'[1].test_run
    ELSE IF self.doc_test_run = None /\ parser'[1].doc_test_run # None
    THEN parser'[1].doc_test_run
    ELSE None

\* C16 as stated: in every TestData returned by parse, test_count equals the
\* number of test-result lines observed in the Tests state of that phase (each
\* of which is one result).
C16_CountIsResults ==
    \A d \in ReturnedData : d.test_count = U64FromNat(Len(d.test_results))

\* C16, amended: in every TestData returned by parse, test_count is the number
\* N that the phase's "running N tests" line declares, and the results are one
\* per test-result line observed in the Tests state; the two are stored side
\* by side and never compared, so they can differ.  A declared count of 0
\* comes with no results.
C16_CountIsDeclared ==
    /\ [][/\ (C16_Takes("Initial") /\ RUNNING_REGEX(Cur.text).matched) =>
                parser'[1].test_count = U64Parse(RUNNING_REGEX(Cur.text).count).val
          /\ (C16_Takes("Initial") /\ ~RUNNING_REGEX(Cur.text).matched) =>
                parser'[1].test_count = self.test_count
          /\ (C16_Takes("Tests") /\ TEST_REGEX(Cur.text).matched) =>
                /\ Len(parser'[1].test_results) = Len(self.test_results) + 1
                /\ parser'[1].test_results[Len(self.test_results) + 1].name
                       = TEST_REGEX(Cur.text).name
                /\ parser'[1].test_count = self.test_count
          /\ (C16_Takes("Tests") /\ ~TEST_REGEX(Cur.text).matched) =>
                /\ Len(parser'[1].test_results) = Len(self.test_results)
                /\ parser'[1].test_count = self.test_count
          /\ (parser # None /\ parser' # None /\ self.state # "Tests") =>
                Len(parser'[1].test_results) \in {0, Len(self.test_results)}
          /\ (parser # None /\ parser' # None /\ self.state \notin {"Initial", "Done"}) =>
                parser'[1].test_count = self.test_count
          /\ (parser # None /\ parser' # None /\ C16_Stored # None) =>
                /\ C16_Stored[1].test_count = self.test_count
                /\ Len(C16_Stored[1].test_results) = Len(self.test_results)]_vars
    /\ [](\A d \in ReturnedData : d.test_count = U64Zero => d.test_results = <<>>)

\* a returned TestData that declares one test and holds two results
C16_CountDiffers ==
    \E d \in ReturnedData :
        /\ d.test_count = U64FromNat(1)
        /\ Len(d.test_results) = 2

\* the well-formed passing runs with a single test
C17_Streams ==
    {SinglePass(t, n) : t \in TestNames, n \in 0..MaxNoise}
        \cup {PassingRuns(n) : n \in 0..MaxNoise}

\* C17: for every well-formed passing run with a single test ("running 1 test",
\* one "test <name> ... ok" line, a non-test line, the summary
\* "test result: ok. 1 passed; 0 failed; ..."), the TestData has as many
\* results as the declared count, summary.passed equal to the declared count
\* and summary.failed 0, and the failure-block parser is never entered.
C17_SinglePassingTest ==
    /\ (stream \in C17_Streams /\ outcome.kind # "running") =>
        /\ outcome.kind = "Ok"
        /\ Len(outcome.value) >= 1
        /\ LET d == outcome.value[1].test_run
           IN  /\ d.test_count = U64FromNat(1)
               /\ U64FromNat(Len(d.test_results)) = d.test_count
               /\ d.test_results[1].result = [tag |-> "Ok", failure |-> None]
               /\ \E t \in TestNames : d.test_results[1].name = t
               /\ d.test_summary.result = "Ok"
               /\ d.test_summary.passed = d.test_count
               /\ d.test_summary.failed = U64Zero
    /\ stream \in C17_Streams =>
        /\ fb = None
        /\ pc \notin {"failure", "failure_next", "attach", "scan", "listing"}
        /\ parser # None => self.state \notin {"FailuresOutput", "FailuresListing"}

\* the run with the single passing test tests::it_works has been returned
C17_Passed ==
    /\ stream = SinglePass("tests::it_works", MaxNoise)
    /\ outcome.kind = "Ok"
    /\ Len(outcome.value) = 1
    /\ outcome.value[1].test_run.test_results[1].name = "tests::it_works"

\* the transitions of TestRunParserState within one phase
C18_Edges ==
    {<<"Initial", "Tests">>, <<"Initial", "Results">>,
     <<"Tests", "FailuresOutput">>, <<"Tests", "Results">>,
     <<"FailuresOutput", "FailuresListing">>, <<"FailuresListing", "Results">>,
     <<"Results", "Done">>}

\* C18: a Run Parser starts in Initial; within one phase its state changes only
\* along Initial->Tests, Initial->Results, Tests->FailuresOutput, Tests->Results,
\* FailuresOutput->FailuresListing, FailuresListing->Results and Results->Done;
\* Done is entered only from Results, by taking a line the summary pattern
\* matches; the phase changes only in state Done, and the only other change of
\* state is the reset Done->Initial that opens the documentation-tests phase.
C18_StateMachine ==
    [][/\ (parser = None /\ parser' # None) =>
            parser'[1].state = "Initial" /\ parser'[1].phase = "Tests"
       /\ (parser # None /\ parser' # None) =>
            /\ parser'[1].phase # self.phase => self.state = "Done"
            /\ parser'[1].state # self.state =>
                \/ /\ <<self.state, parser'[1].state>> \in C18_Edges
                   /\ parser'[1].phase = self.phase
                   /\ parser'[1].state = "Done" =>
                        /\ pos' = pos + 1
                        /\ IsText(stream[pos'])
                        /\ RESULT_REGEX(stream[pos'].text).matched
                \/ /\ self.state = "Done" /\ parser'[1].state = "Initial"
                   /\ self.phase = "Tests" /\ parser'[1].phase = "DocTests"]_vars

\* the second phase is Done after a failure block, the first went Initial->Results
C18_BothPaths ==
    /\ parser # None
    /\ self.phase = "DocTests" /\ self.state = "Done"
    /\ self.test_run # None /\ self.test_run[1].test_results = <<>>
    /\ self.doc_test_run # None
    /\ \E i \in 1..Len(self.doc_test_run[1].test_results) :
           /\ self.doc_test_run[1].test_results[i].kind = "Failed"
           /\ self.doc_test_run[1].test_results[i].failure_info # None

\* the step that opens the documentation-tests phase
C19_PhaseStep ==
    /\ parser # None /\ parser' # None
    /\ self.phase = "Tests" /\ parser'[1].phase # "Tests"

C20_AnyFailed(p) ==
    \E i \in 1..Len(p.test_results) : p.test_results[i].kind = "Failed"

\* the Run Parser, in state Tests, takes a text line
C20_TakesLine ==
    /\ parser # None /\ parser' # None
    /\ pc = "run" /\ self.state = "Tests"
    /\ pos' = pos + 1
    /\ IsText(stream[pos'])

\* C20: in the Tests state a text line that is a test-result line keeps the
\* state; the first text line that is none ends it: the next state is
\* FailuresOutput if and only if some result recorded so far in this phase is
\* Failed, otherwise Results; that line is consumed and not handed to the next
\* state, which starts with the record after it; the parser is never in
\* FailuresOutput in a phase with no recorded Failed result.
C20_TestsEnd ==
    /\ []((parser # None /\ self.state = "FailuresOutput") => C20_AnyFailed(self))
    /\ [][/\ (C20_TakesLine /\ TEST_REGEX(stream[pos'].text).matched
                 /\ outcome'.kind = "running") =>
              /\ parser'[1].state = "Tests"
              /\ Len(parser'[1].test_results) = Len(self.test_results) + 1
          /\ (C20_TakesLine /\ ~TEST_REGEX(stream[pos'].text).matched) =>
              /\ parser'[1].state = IF C20_AnyFailed(self)
                                    THEN "FailuresOutput" ELSE "Results"
              /\ parser'[1].test_results = self.test_results
              /\ parser'[1].phase = self.phase
              /\ peeked' = FALSE
              /\ fb' = None
              /\ pc' = "run"
          /\ (parser # None /\ parser' # None /\ self.state = "Tests"
                 /\ parser'[1].state # "Tests") =>
              /\ C20_TakesLine
              /\ ~TEST_REGEX(stream[pos'].text).matched
          /\ (parser # None /\ self.state = "FailuresOutput" /\ fb = None /\ fb' # None) =>
              /\ pos' = pos + 1
              /\ fb'[1].text_inner = stream[pos'].text]_vars

\* a blank line after the test lines has just ended Tests, with a Failed result
\* recorded: the parser is in FailuresOutput and has not read on
C20_EndedWithFailure ==
    /\ parser # None /\ pc = "run" /\ fb = None
    /\ self.state = "FailuresOutput"
    /\ pos > 1
    /\ IsText(stream[pos]) /\ stream[pos].text = ""
    /\ IsText(stream[pos - 1]) /\ TEST_REGEX(stream[pos - 1].text).matched
    /\ ~peeked

\* the Run Parser, in state Initial, takes a count declaration whose count parses
C21_TakesDeclaration ==
    /\ parser # None /\ parser' # None
    /\ pc = "run" /\ self.state = "Initial"
    /\ pos' = pos + 1
    /\ IsText(stream[pos'])
    /\ RUNNING_REGEX(stream[pos'].text).matched
    /\ U64Parse(RUNNING_REGEX(stream[pos'].text).count).ok

\* the count N of the declaration just taken
C21_Declared == U64Parse(RUNNING_REGEX(stream[pos'].text).count).val

\* C21: in the Initial state a count declaration with N = 0 sets the declared
\* count to 0 and moves directly to Results with no recorded results; a
\* declaration with N > 0 sets the declared count to N and moves to Tests.  The
\* states Tests, FailuresOutput and FailuresListing occur only in a phase whose
\* declared count is not 0, and a phase with declared count 0 records nothing.
C21_CountDeclaration ==
    /\ [](parser # None =>
            /\ self.state \in {"Tests", "FailuresOutput", "FailuresListing"} =>
                   self.test_count # U64Zero
            /\ (self.state \in {"Initial", "Results"} /\ self.test_count = U64Zero) =>
                   self.test_results = <<>>)
    /\ [][C21_TakesDeclaration =>
            /\ parser'[1].test_count = C21_Declared
            /\ parser'[1].state = IF C21_Declared = U64Zero THEN "Results" ELSE "Tests"
            /\ parser'[1].test_results = self.test_results
            /\ self.test_results = <<>>
            /\ parser'[1].phase = self.phase
            /\ outcome' = outcome]_vars

\* "running 0 tests" has just been taken in the plain phase: the parser is in Results
C21_ZeroDeclared ==
    /\ parser # None /\ pc = "run"
    /\ self.phase = "Tests" /\ self.state = "Results"
    /\ self.test_count = U64Zero /\ self.test_results = <<>>
    /\ pos > 0 /\ IsText(stream[pos]) /\ stream[pos].text = "running 0 tests"

\* the forward scan after an attached block looks at a text line
C22_ScanSees ==
    /\ pc = "scan" /\ parser # None /\ fb # None
    /\ HasNext /\ IsText(Cur)

\* the failure info the i-th block of ManyFailures describes
C22_Info(i) ==
    NewTestFailureInfo(
        "thread '" \o BlockName(i) \o "' panicked at 'boom'",
        [file |-> "src/" \o BlockName(i) \o ".rs", line |-> U64FromNat(i),
         column |-> U64FromNat(1)],
        "stack backtrace:\n   0: frame")

C22_Streams == {ManyFailures(k, g) : k \in 1..MaxBlocks, g \in 0..MaxNoise}

\* C22: after a block is Done and its info attached, the parser skips text lines
\* until it peeks a failure header (then it parses another block, re-entering
\* at Header, and the name of that block is taken from that header line) or a
\* line that trims to "failures:" (then it leaves the failure loop for
\* FailuresListing); neither of the two lines is consumed by the scan.  For a
\* failures section with k well-formed blocks for k distinct recorded names,
\* each of the k results has its own block's failure info in FailuresListing.
C22_ForwardScan ==
    /\ [][/\ (C22_ScanSees /\ FAILURE_HEADER_REGEX(Cur.text).matched) =>
              /\ pos' = pos /\ peeked'
              /\ parser' = parser
              /\ fb' = Some(NewBlock("", "Header"))
              /\ pc' = "failure"
          /\ (C22_ScanSees /\ ~FAILURE_HEADER_REGEX(Cur.text).matched
                 /\ Trim(Cur.text) = "failures:") =>
              /\ pos' = pos /\ peeked'
              /\ fb' = None
              /\ parser' = Some([self EXCEPT !.state = "FailuresListing"])
              /\ pc' = "run"
          /\ (C22_ScanSees /\ ~FAILURE_HEADER_REGEX(Cur.text).matched
                 /\ Trim(Cur.text) # "failures:") =>
              /\ pos' = pos + 1
              /\ parser' = parser /\ fb' = fb /\ pc' = "scan"
          /\ (fb # None /\ fb' # None /\ blk.failure_parsing_state = "Header"
                 /\ fb'[1].failure_parsing_state = "Panic") =>
              /\ pos' = pos
              /\ IsText(stream[pos])
              /\ blk.text_inner = stream[pos].text
              /\ fb'[1].name = Some(FAILURE_HEADER_REGEX(stream[pos].text).name)]_vars
    /\ []((stream \in C22_Streams /\ parser # None /\ self.phase = "Tests"
              /\ self.state = "FailuresListing") =>
            /\ outcome.kind = "running"
            /\ Len(self.test_results) \in 1..MaxBlocks
            /\ \E g \in 0..MaxNoise : stream = ManyFailures(Len(self.test_results), g)
            /\ \A i \in 1..Len(self.test_results) :
                   /\ self.test_results[i].name = BlockName(i)
                   /\ self.test_results[i].kind = "Failed"
                   /\ self.test_results[i].failure_info = Some(C22_Info(i)))
    /\ []((stream \in C22_Streams /\ outcome.kind # "running") =>
            /\ outcome.kind = "Ok"
            /\ \A i \in 1..Len(outcome.value[1].test_run.test_results) :
                   outcome.value[1].test_run.test_results[i].result
                       = [tag |-> "Failed", failure |-> Some(C22_Info(i))])

\* MaxBlocks blocks with unrelated lines between them have all been attached
C22_AllAttached ==
    /\ stream = ManyFailures(MaxBlocks, MaxNoise)
    /\ parser # None /\ self.phase = "Tests" /\ self.state = "FailuresListing"
    /\ Len(self.test_results) = MaxBlocks
    /\ \A i \in 1..MaxBlocks : self.test_results[i].failure_info = Some(C22_Info(i))

\* the Run Parser, in state st, takes a text line
C23_Takes(st) ==
    /\ parser # None /\ pc = "run"
    /\ self.phase # "Done" /\ self.state = st
    /\ HasNext /\ IsText(Cur)

\* C23: in the Initial state a text line that is no count declaration, and in
\* the Results state a text line that is no summary line, is consumed and leaves
\* the parser's state, phase, test counter, recorded results and stored
\* TestData unchanged; it is not reported as an error.
C23_UnmatchedLineSkipped ==
    [][((C23_Takes("Initial") /\ ~RUNNING_REGEX(Cur.text).matched)
           \/ (C23_Takes("Results") /\ ~RESULT_REGEX(Cur.text).matched)) =>
          /\ pos' = pos + 1
          /\ peeked' = FALSE
          /\ parser' = parser
          /\ outcome' = outcome /\ outcome.kind = "running"
          /\ pc' = "run"
          /\ fb' = fb /\ test_runs' = test_runs]_vars

\* a line that is no summary line has been skipped in Results with results pending
C23_SkippedInResults ==
    /\ parser # None /\ pc = "run" /\ self.state = "Results"
    /\ self.test_results # <<>>
    /\ pos > 1
    /\ IsText(stream[pos]) /\ ~RESULT_REGEX(stream[pos].text).matched
    /\ IsText(stream[pos - 1]) /\ ~TEST_REGEX(stream[pos - 1].text).matched
    /\ ~RESULT_REGEX(stream[pos - 1].text).matched
    /\ stream[pos].text # ""

\* the partitioner's loop takes a typed event
C24_SeesTypedEvent == pc = "parse" /\ HasNext /\ ~IsText(Cur)

\* C24: a typed event seen by the partitioner that is no artifact event with an
\* executable (an artifact event without an executable included) leaves the
\* current artifact and the output sequence unchanged and starts no Run Parser;
\* an executable-artifact event only replaces the current artifact and adds
\* nothing to the output.
C24_TypedEvents ==
    /\ [](pc = "parse" => parser = None /\ fb = None)
    /\ [][C24_SeesTypedEvent =>
            /\ pos' = pos + 1
            /\ current_artifact' =
                   IF Cur.type = "CompilerArtifact" /\ Cur.executable
                   THEN Some(Cur) ELSE current_artifact
            /\ test_runs' = test_runs
            /\ parser' = None /\ fb' = None
            /\ pc' = "parse"
            /\ outcome' = outcome]_vars

\* after a run of package app, an artifact event without an executable has been
\* passed over: the current artifact is still the one of the first segment
C24_Ignored ==
    /\ pc = "parse"
    /\ pos > 1
    /\ stream[pos] = Artifact("app 0.1.0", <<>>, FALSE)
    /\ current_artifact = Some(ArtifactApp)
    /\ Len(test_runs) = 1

\* the block just finished is attached: lib.rs:352-362 went through
C25_Attaches ==
    /\ pc = "attach" /\ pc' = "scan"
    /\ parser # None /\ parser' # None /\ fb # None

\* the infos of the two blocks of DuplicateNames
C25_First ==
    NewTestFailureInfo("thread 'b' panicked at 'first'",
                       [file |-> "src/b.rs", line |-> U64FromNat(1), column |-> U64FromNat(1)],
                       "stack backtrace:\n   0: frame")
C25_Second ==
    NewTestFailureInfo("thread 'b' panicked at 'second'",
                       [file |-> "src/b.rs", line |-> U64FromNat(2), column |-> U64FromNat(2)],
                       "stack backtrace:\n   0: frame")

\* C25: failure attachment is a linear lookup by name only: the info of a block
\* goes to the first recorded result of the phase with the block's name,
\* whatever that result's kind, and no other result changes; when two recorded
\* Failed results share a name, the second block of that name overwrites the
\* first result's info and the second result never receives any, so the run is
\* never returned (the conversion of the result without info panics).
C25_AttachByName ==
    /\ [][C25_Attaches =>
            \E i \in 1..Len(self.test_results) :
                /\ self.test_results[i].name = blk.name[1]
                /\ \A j \in 1..(i - 1) : self.test_results[j].name # blk.name[1]
                /\ parser'[1].test_results =
                       [self.test_results EXCEPT ![i].failure_info =
                            Some(NewTestFailureInfo(
                                     blk.panic_text[1],
                                     TestFailureLocationFromStr(blk.location[1]).val,
                                     blk.stacktrace[1]))]
                /\ parser'[1].test_results[i].kind = self.test_results[i].kind]_vars
    /\ [](stream = DuplicateNames =>
            /\ outcome.kind \in {"running", "panic"}
            /\ test_runs = <<>>
            /\ (parser # None /\ Len(self.test_results) = 2) =>
                   /\ self.test_results[1].failure_info \in {None, Some(C25_First), Some(C25_Second)}
                   /\ self.test_results[2].failure_info = None
            /\ (parser # None /\ self.test_run # None) =>
                   /\ self.test_run[1].test_results[1].failure_info = Some(C25_Second)
                   /\ self.test_run[1].test_results[2].failure_info = None)
    /\ [](stream = BlockForPassing =>
            /\ outcome.kind \in {"running", "panic"}
            /\ (parser # None /\ self.test_run # None) =>
                   /\ self.test_run[1].test_results[1].kind = "Ok"
                   /\ self.test_run[1].test_results[1].failure_info # None
                   /\ self.test_run[1].test_results[2].kind = "Failed"
                   /\ self.test_run[1].test_results[2].failure_info = None)

\* both blocks named b were attached to the first result b; the conversion panicked
C25_Overwritten ==
    /\ stream = DuplicateNames
    /\ outcome.kind = "panic"
    /\ parser # None /\ self.phase = "Done"
    /\ self.test_run[1].test_results[1].failure_info = Some(C25_Second)
    /\ self.test_run[1].test_results[2].kind = "Failed"
    /\ self.test_run[1].test_results[2].failure_info = None

\* the end-to-end segment without the blank line after the artifact: the first
\* text line is the declaration "running 2 tests"
C26_DeclarationFirst == Delete(FailingRun(1, 0), 2)

\* C26: the text line that makes the partitioner start a Run Parser is consumed
\* by the partitioner and never seen by the Run Parser, which starts in Initial
\* with count 0 whatever that line says and leaves Initial only by taking a
\* later count declaration.  If the line is the "running N tests" declaration
\* of the plain phase, the declaration is lost: the Run Parser stays in Initial,
\* recording nothing, until a later declaration line appears.
C26_FirstLineConsumed ==
    /\ [][/\ (parser = None /\ parser' # None) =>
              /\ pc = "parse" /\ IsText(Cur)
              /\ pos' = pos + 1 /\ peeked' = FALSE
              /\ parser'[1].state = "Initial"
              /\ parser'[1].test_count = U64Zero
              /\ parser'[1].test_results = <<>>
          /\ (parser # None /\ parser' # None /\ self.state = "Initial"
                 /\ parser'[1].state # "Initial") =>
              /\ pos' = pos + 1
              /\ IsText(stream[pos'])
              /\ RUNNING_REGEX(stream[pos'].text).matched]_vars
    /\ [](stream = C26_DeclarationFirst =>
            /\ stream[2] = TextLine("running 2 tests")
            /\ outcome.kind \in {"running", "panic"}
            /\ test_runs = <<>>
            /\ (parser # None /\ self.phase = "Tests") =>
                   /\ self.test_results = <<>>
                   /\ self.test_count = U64Zero
                   /\ self.state # "Initial" =>
                          \E i \in 3..pos : stream[i] = TextLine("running 0 tests")
            /\ (parser # None /\ self.test_run # None) =>
                   /\ self.test_run[1].test_count = U64Zero
                   /\ self.test_run[1].test_results = <<>>)

\* the declaration "running 2 tests" was taken by the partitioner and the Run
\* Parser has read past both test lines, still in Initial
C26_DeclarationLost ==
    /\ stream = C26_DeclarationFirst
    /\ parser # None /\ pc = "run"
    /\ self.phase = "Tests" /\ self.state = "Initial"
    /\ pos >= 4
    /\ stream[pos] = TextLine("test b ... FAILED")

\* a Run Parser that has not reached Done in both phases asks the exhausted
\* stream for a record: next() in either loop, or one of the lookaheads
C27_AsksAtEnd ==
    /\ parser # None /\ outcome.kind = "running"
    /\ ~HasNext
    /\ \/ InLoop
       \/ pc \in {"failure_next", "scan", "listing"}
       \/ pc = "failure" /\ blk.failure_parsing_state \in {"Panic", "Stacktrace"}

\* the forward scan found the stream exhausted: the next block has nothing in it
C27_EmptyBlock ==
    /\ parser # None /\ outcome.kind = "running"
    /\ ~HasNext
    /\ pc = "attach" /\ blk.panic_text = None

\* C27: if the stream is exhausted while a Run Parser has not reached Done in
\* both phases, parse aborts with a panic: next() at the end of the stream
\* panics at once, a lookahead at the end of the stream leads to such a next()
\* or to the unwrap of an empty block; parse returns neither a sequence of
\* TestRuns nor an error value, and no TestRun is produced on the way.  A
\* TestRun is only ever produced by a parser both of whose phases reached Done.
C27_ExhaustedAborts ==
    /\ []((C27_AsksAtEnd \/ C27_EmptyBlock) => ENABLED <<Next>>_vars)
    /\ [][/\ (C27_AsksAtEnd /\ (InLoop \/ pc = "failure_next")) =>
              outcome'.kind = "panic"
          /\ (C27_AsksAtEnd /\ pc = "failure") =>
              /\ pc' = "failure_next" /\ outcome' = outcome
              /\ parser' = parser /\ pos' = pos
          /\ (C27_AsksAtEnd /\ pc = "listing") =>
              /\ pc' = "run" /\ outcome' = outcome
              /\ parser' = parser /\ pos' = pos
              /\ self.phase # "Done" /\ self.state = "FailuresListing"
          /\ (C27_AsksAtEnd /\ pc = "scan") =>
              /\ pc' = "attach" /\ outcome' = outcome
              /\ parser' = parser /\ pos' = pos
              /\ fb' # None /\ fb'[1].panic_text = None
          /\ C27_EmptyBlock => outcome'.kind = "panic"
          /\ (C27_AsksAtEnd \/ C27_EmptyBlock) =>
              /\ test_runs' = test_runs
              /\ parser' # None]_vars
    /\ [][test_runs' # test_runs =>
              /\ parser # None
              /\ self.phase = "Done" /\ self.state = "Done"
              /\ self.test_run # None /\ self.doc_test_run # None
              /\ test_runs' = Append(test_runs, TestRunFrom(self))]_vars
    /\ [](parser # None =>
              /\ self.phase = "Done" => self.test_run # None /\ self.doc_test_run # None
              /\ self.doc_test_run # None => self.test_run # None)

\* the end-to-end segment cut off after its first summary line has panicked in
\* the documentation phase
C27_CutOff ==
    /\ stream = SubSeq(FailingRun(1, 0), 1, 18)
    /\ outcome.kind = "panic"
    /\ outcome.error = "we're in the middle of parsing"
    /\ parser # None /\ self.phase = "DocTests" /\ self.state = "Initial"
    /\ self.test_run # None
    /\ test_runs = <<>>

\* the failure block is in its Panic state
C28_InPanic == parser # None /\ fb # None /\ blk.failure_parsing_state = "Panic"

\* every text line from the block's first panic line on, joined with newlines
C28_Absorbed(from, to) ==
    LET RECURSIVE Upto(_)
        Upto(i) == IF i = from THEN stream[i].text
                   ELSE Upto(i - 1) \o "\n" \o stream[i].text
    IN  Upto(to)

\* C28: the Panic state is left only when the next record is a text line that
\* trims to "stack backtrace:"; any other text line peeked there, be it a later
\* failure header, the "failures:" listing or the summary line, is consumed and
\* appended to the accumulated panic text.  If no such line follows, the parse
\* cannot complete: when a typed event or the end of the stream is reached the
\* lookahead gives up and the next() after it fails with UnexpectedRecord,
\* respectively panics.
C28_PanicState ==
    /\ [][/\ (C28_InPanic /\ outcome.kind = "running"
                 /\ ~(fb' # None /\ fb'[1].failure_parsing_state = "Panic")) =>
              /\ pc = "failure" /\ outcome' = outcome
              /\ HasNext /\ IsText(Cur) /\ Trim(Cur.text) = "stack backtrace:"
              /\ pos' = pos
              /\ fb' # None /\ fb'[1].failure_parsing_state = "Stacktrace"
          /\ (C28_InPanic /\ pc = "failure" /\ HasNext /\ IsText(Cur)
                 /\ Trim(Cur.text) # "stack backtrace:") =>
              /\ pos' = pos + 1
              /\ fb' = Some([blk EXCEPT !.text_inner = @ \o "\n" \o Cur.text])
              /\ pc' = "failure" /\ parser' = parser /\ outcome' = outcome
          /\ (C28_InPanic /\ pc = "failure" /\ ~(HasNext /\ IsText(Cur))) =>
              /\ pc' = "failure_next" /\ peeked' /\ pos' = pos
              /\ fb' = fb /\ parser' = parser /\ outcome' = outcome
          /\ (C28_InPanic /\ pc = "failure_next" /\ peeked) =>
              /\ ~(HasNext /\ IsText(Cur))
              /\ outcome'.kind = IF HasNext THEN "Err" ELSE "panic"
              /\ HasNext => outcome'.error = "UnexpectedRecord"
              /\ test_runs' = test_runs]_vars
    /\ []((C28_InPanic /\ outcome.kind = "running" /\ ~(HasNext /\ IsText(Cur))) =>
              ENABLED <<Next>>_vars)
    /\ [](stream \in {NoBacktrace, NoBacktraceThenEvent} =>
            /\ test_runs = <<>>
            /\ outcome.kind =
                   IF pc \in {"exit", "done", "main"} \/ outcome.kind # "running"
                   THEN (IF stream = NoBacktrace THEN "panic" ELSE "Err")
                   ELSE "running"
            /\ (fb # None /\ pos >= 10) =>
                   /\ blk.failure_parsing_state = "Panic"
                   /\ blk.text_inner =
                          C28_Absorbed(10, IF pos > Len(NoBacktrace)
                                           THEN Len(NoBacktrace) ELSE pos))

\* the block without "stack backtrace:" has absorbed every text line up to the
\* last one of the documentation phase, and the parse has stopped at the event
C28_AbsorbedAll ==
    /\ stream = NoBacktraceThenEvent
    /\ outcome.kind = "Err" /\ outcome.error = "UnexpectedRecord"
    /\ fb # None /\ blk.failure_parsing_state = "Panic"
    /\ blk.text_inner = C28_Absorbed(10, Len(NoBacktrace))
    /\ pos = Len(NoBacktrace) + 1

\* PassingRuns without its second artifact event: after the first run only a
\* build-finished event stands before the next text lines
C29_NoSecondArtifact == Delete(PassingRuns(0), 13)

\* C29: the current artifact is not cleared when a Run Parser returns; it
\* changes only when the partitioner takes an executable-artifact event.  If,
\* after a completed run and its discarded trailing text lines, a typed event
\* that is no executable-artifact event is followed by a text line, the
\* partitioner starts another Run Parser for the same artifact: the run it
\* returns has the package and the features of the first.
C29_StaleArtifact ==
    /\ [][/\ current_artifact' # current_artifact =>
              /\ pc = "parse" /\ HasNext /\ IsExecutableArtifact(Cur)
              /\ current_artifact' = Some(Cur)
          /\ (parser # None /\ parser' = None) =>
              /\ current_artifact # None
              /\ current_artifact' = current_artifact
          /\ (parser = None /\ parser' # None) =>
              /\ current_artifact # None
              /\ parser'[1].package = current_artifact[1].package_id
              /\ parser'[1].features = current_artifact[1].features]_vars
    /\ [](stream = C29_NoSecondArtifact =>
            /\ stream[12] = BuildFinished /\ IsText(stream[13])
            /\ \A i \in 1..Len(stream) : IsExecutableArtifact(stream[i]) => i = 1
            /\ pos >= 1 => current_artifact = Some(ArtifactApp)
            /\ outcome.kind # "running" =>
                   /\ outcome.kind = "Ok"
                   /\ Len(outcome.value) = 2
                   /\ \A i \in 1..2 :
                          /\ outcome.value[i].package = "app 0.1.0"
                          /\ outcome.value[i].features = <<"default", "std">>)

\* the second Run Parser has been started for the artifact of the first run
C29_SecondRunStale ==
    /\ stream = C29_NoSecondArtifact
    /\ Len(test_runs) = 1
    /\ parser # None /\ pos = 13
    /\ self.package = "app 0.1.0"
    /\ current_artifact = Some(ArtifactApp)

C30_NoArtifactMessage == "No current artifact. Is the input data malformed?"

\* C30: a text line that reaches the partitioner before any executable-artifact
\* event has been seen aborts the whole parse with the panic "No current
\* artifact": the line is consumed, no Run Parser is started, and the outcome is
\* neither Ok nor one of the error values.  That panic has no other cause.
C30_NoCurrentArtifact ==
    /\ [](pc = "parse" =>
            (current_artifact = None
                <=> \A i \in 1..pos : ~IsExecutableArtifact(stream[i])))
    /\ [](current_artifact = None => test_runs = <<>> /\ parser = None)
    /\ [][/\ (pc = "parse" /\ HasNext /\ IsText(Cur) /\ current_artifact = None) =>
              /\ pos' = pos + 1
              /\ outcome' = Panicked(C30_NoArtifactMessage)
              /\ pc' = "exit"
              /\ parser' = None /\ test_runs' = <<>>
          /\ (outcome.kind = "running" /\ outcome'.kind = "panic"
                 /\ outcome'.error = C30_NoArtifactMessage) =>
              /\ pc = "parse" /\ HasNext /\ IsText(Cur)
              /\ \A i \in 1..pos : ~IsExecutableArtifact(stream[i])]_vars
    /\ []((outcome.kind = "panic" /\ outcome.error = C30_NoArtifactMessage
              /\ main_outcome.kind # "running") =>
            main_outcome.kind = "panic" /\ annotations = <<>>)

\* the end-to-end segment without its artifact event: the first text line has
\* stopped the parse, after an irrelevant event was passed over
C30_TextBeforeArtifact ==
    /\ stream = Replace(FailingRun(1, 0), 1, BuildFinished)
    /\ pos = 2
    /\ outcome = Panicked(C30_NoArtifactMessage)
    /\ current_artifact = None

\* how many steps parse can still take at its control position without
\* consuming a record
C31_Local ==
    IF outcome.kind # "running" THEN 0
    ELSE CASE pc = "parse" -> 1
           [] pc = "discard" -> 2
           [] pc = "run" ->
                IF self.phase = "Done" THEN 3
                ELSE IF self.state = "Done" THEN (IF self.phase = "DocTests" THEN 4 ELSE 2)
                ELSE 1
           [] pc = "listing" -> 2
           [] pc = "failure_next" -> 1
           [] pc = "failure" -> 2
           [] pc = "attach" -> IF blk.panic_text = None THEN 1 ELSE 4
           [] pc = "scan" -> 3
           [] OTHER -> 0

\* a measure of what is left to do: the records not yet consumed first, the
\* control position second
C31_Rank == (Len(stream) - pos) * 5 + C31_Local

\* the positions where parse is not about to match a text line against a
\* regular expression: the partitioner, the discard and the lookahead scans,
\* the end of the stream, a record that is not text, the return of a Run Parser
C31_BetweenLines ==
    \/ pc \in {"parse", "discard", "listing", "scan"}
    \/ ~HasNext
    \/ ~IsText(Cur)
    \/ pc = "run" /\ ~InLoop

\* C31: for every finite record stream parse terminates, with a sequence of
\* TestRuns, an error or a panic: every step of the partitioner, the Run
\* Parser, the failure block parser and the lookahead scans either consumes one
\* record or moves on in the control flow towards the exit of its loop, so that
\* a measure bounded by the number of records left strictly decreases and no
\* state is revisited; between two text lines a step is always possible.
C31_Terminates ==
    /\ [](outcome.kind \in {"running", "Ok", "Err", "panic"})
    /\ []((outcome.kind = "running") =>
            /\ pos <= Len(stream)
            /\ C31_Local \in 1..4)
    /\ []((outcome.kind = "running" /\ C31_BetweenLines) => ENABLED <<Next>>_vars)
    /\ [][outcome.kind = "running" =>
            /\ \/ pos' = pos + 1
               \/ pos' = pos /\ C31_Local' < C31_Local
            /\ C31_Rank' < C31_Rank
            /\ stream' = stream]_vars

\* parse has come to its end on the longest stream of failure blocks, having
\* consumed every record
C31_ReachedEnd ==
    /\ stream = ManyFailures(MaxBlocks, MaxNoise)
    /\ outcome.kind = "Ok"
    /\ pos = Len(stream)
    /\ Len(outcome.value) = 1

\* the failed documentation test that main is about to annotate
C32_Result == CurRun.doc_test_run.test_results[qi]

\* reported_line + N of that test, as main.rs:119 adds them
C32_Sum ==
    U64Add(C32_Result.result.failure[1].location.line,
           U64Parse(DOCTEST_NAME_FILE_REGEX(C32_Result.name).line).val)

\* main is at a failed documentation test whose name has the expected shape and
\* whose reported_line + N is 0, 1 or 2
C32_Underflows ==
    /\ pc = "main_doctests"
    /\ qi <= Len(CurRun.doc_test_run.test_results)
    /\ IsFailed(C32_Result)
    /\ DOCTEST_NAME_FILE_REGEX(C32_Result.name).matched
    /\ U64Parse(DOCTEST_NAME_FILE_REGEX(C32_Result.name).line).ok
    /\ ~C32_Sum.overflow
    /\ C32_Sum.val[1] < DOCTEST_LINE_OFFSET
    /\ \A i \in 2..4 : C32_Sum.val[i] = 0

\* k - 3 modulo 2^64 for k < 3
C32_Wrapped(k) == <<Limb - DOCTEST_LINE_OFFSET + k, Limb - 1, Limb - 1, Limb - 1>>

\* C32: the line correction of a documentation test is unguarded u64
\* arithmetic: when reported_line + N < 3 the subtraction of 3 underflows, so
\* that main panics (overflow checks on) or annotates the line
\* reported_line + N - 3 + 2^64 (overflow checks off); it never yields an error
\* value, and the only error values of the correction are those of a name of
\* another shape and of an <N> that is no u64.
C32_LineUnderflow ==
    /\ [][C32_Underflows =>
            /\ main_outcome'.kind # "Err"
            /\ \/ /\ main_outcome'.kind = "panic"
                  /\ overflow_checks' = "on"
                  /\ annotations' = annotations
               \/ /\ main_outcome' = main_outcome
                  /\ overflow_checks' = "off"
                  /\ real' # None
                  /\ real'[1][2] = C32_Wrapped(C32_Sum.val[1])
                  /\ Len(annotations') = Len(annotations) + 1
                  /\ annotations'[Len(annotations')].start_line
                        = AsU32(C32_Wrapped(C32_Sum.val[1]))]_vars
    /\ [][(pc = "main_doctests" /\ main_outcome'.kind = "Err") =>
            \/ ~DOCTEST_NAME_FILE_REGEX(C32_Result.name).matched
            \/ ~U64Parse(DOCTEST_NAME_FILE_REGEX(C32_Result.name).line).ok]_vars

\* a documentation test named "... (line 0)" that failed at line 1 has been
\* annotated in a build without overflow checks: at line 2^64 - 2
C32_WrappedLine ==
    /\ overflow_checks = "off"
    /\ real # None
    /\ real[1][2] = C32_Wrapped(1)
    /\ annotations # <<>>
    /\ main_outcome.kind = "running"

=============================================================================
